---- MODULE Spec2Model ----
(***************************************************************************)
(* Model of the scoring engine of src/main.py (normalize_text and          *)
(* calculate_score_advanced) as a state machine.  Strings are sequences    *)
(* of one-character strings, Python floats are IEEE-754 binary64 values    *)
(* computed with round-to-nearest-even, and difflib.SequenceMatcher and    *)
(* jellyfish.jaro_winkler_similarity are computed by their algorithms.     *)
(***************************************************************************)
EXTENDS Integers, Sequences, FiniteSets, TLC

(***************************************************************************)
(* Bounds of the model.                                                    *)
(***************************************************************************)
\* longest performed text of the long inputs, in whitespace-separated words
MaxUserWords == 5
\* longest target text of the long inputs, in whitespace-separated words
MaxTargetWords == 5
\* longest text of the short inputs, which range over the whole vocabulary
MaxRichWords == 2

(***************************************************************************)
(* IEEE-754 binary64 arithmetic on non-negative values.  A natural number  *)
(* of any size is a little-endian sequence of limbs below LimbBase with no *)
(* leading zero limb; a double is [m, e] of value m * 2^e where m has      *)
(* exactly MantBits bits, or DZero.                                        *)
(***************************************************************************)
LimbBits == 15
LimbBase == 32768
MantBits == 53

RECURSIVE Pow2(_)
Pow2(n) == IF n = 0 THEN 1 ELSE 2 * Pow2(n - 1)

RECURSIVE BNNorm(_)
BNNorm(a) ==
    IF a = <<>> THEN <<>>
    ELSE IF a[Len(a)] = 0 THEN BNNorm(SubSeq(a, 1, Len(a) - 1))
    ELSE a

BNFromNat(n) ==
    BNNorm(<< n % LimbBase, (n \div LimbBase) % LimbBase,
              n \div (LimbBase * LimbBase) >>)

RECURSIVE BNToNat(_)
BNToNat(a) == IF a = <<>> THEN 0 ELSE a[1] + LimbBase * BNToNat(Tail(a))

RECURSIVE BNAddC(_, _, _)
BNAddC(a, b, c) ==
    IF a = <<>> /\ b = <<>> THEN (IF c = 0 THEN <<>> ELSE <<c>>)
    ELSE LET x == IF a = <<>> THEN 0 ELSE a[1]
             y == IF b = <<>> THEN 0 ELSE b[1]
             s == x + y + c
         IN  <<s % LimbBase>> \o
             BNAddC(IF a = <<>> THEN <<>> ELSE Tail(a),
                    IF b = <<>> THEN <<>> ELSE Tail(b), s \div LimbBase)

BNAdd(a, b) == BNAddC(a, b, 0)

\* a - b for a >= b
RECURSIVE BNSubB(_, _, _)
BNSubB(a, b, bw) ==
    IF a = <<>> THEN <<>>
    ELSE LET y == IF b = <<>> THEN 0 ELSE b[1]
             d == a[1] - y - bw
         IN  <<IF d < 0 THEN d + LimbBase ELSE d>> \o
             BNSubB(Tail(a), IF b = <<>> THEN <<>> ELSE Tail(b),
                    IF d < 0 THEN 1 ELSE 0)

BNSub(a, b) == BNNorm(BNSubB(a, b, 0))

\* a * k for 0 <= k <= LimbBase
RECURSIVE BNMulSmallC(_, _, _)
BNMulSmallC(a, k, c) ==
    IF a = <<>> THEN (IF c = 0 THEN <<>> ELSE <<c>>)
    ELSE LET p == a[1] * k + c
         IN  <<p % LimbBase>> \o BNMulSmallC(Tail(a), k, p \div LimbBase)

BNMulSmall(a, k) == BNNorm(BNMulSmallC(a, k, 0))

RECURSIVE BNMul(_, _)
BNMul(a, b) ==
    IF b = <<>> THEN <<>>
    ELSE BNAdd(BNMulSmall(a, b[1]),
               LET r == BNMul(a, Tail(b)) IN IF r = <<>> THEN <<>> ELSE <<0>> \o r)

\* quotient and remainder of a by k, 0 < k < LimbBase
RECURSIVE BNDivSmallR(_, _, _)
BNDivSmallR(a, k, n) ==
    IF n = 0 THEN [q |-> <<>>, r |-> 0]
    ELSE LET hi  == BNDivSmallR(a, k, n - 1)
             cur == hi.r * LimbBase + a[Len(a) - n + 1]
         IN  [q |-> <<cur \div k>> \o hi.q, r |-> cur % k]

BNDivSmall(a, k) ==
    LET d == BNDivSmallR(a, k, Len(a)) IN [q |-> BNNorm(d.q), r |-> d.r]

RECURSIVE NatBitLen(_)
NatBitLen(n) == IF n = 0 THEN 0 ELSE 1 + NatBitLen(n \div 2)

BNBitLen(a) ==
    IF a = <<>> THEN 0 ELSE LimbBits * (Len(a) - 1) + NatBitLen(a[Len(a)])

\* a * 2^n
BNShl(a, n) ==
    IF a = <<>> THEN <<>>
    ELSE [i \in 1..(n \div LimbBits) |-> 0] \o BNMulSmall(a, Pow2(n % LimbBits))

\* floor(a / 2^n), and whether a nonzero bit was shifted out
BNShr(a, n) ==
    LET drop == n \div LimbBits
        kept == IF drop >= Len(a) THEN <<>> ELSE SubSeq(a, drop + 1, Len(a))
        lost == \E i \in 1..Len(a) : i <= drop /\ a[i] # 0
        d    == BNDivSmall(kept, Pow2(n % LimbBits))
    IN  [q |-> d.q, sticky |-> lost \/ d.r # 0]

DZero == [m |-> <<>>, e |-> 0]

\* the last step of rounding: a carry out of the mantissa's top bit halves it
DRenormalize(m1, e) ==
    IF BNBitLen(m1) > MantBits
    THEN [m |-> BNDivSmall(m1, 2).q, e |-> e + 1]
    ELSE [m |-> m1, e |-> e]

\* half.q is the mantissa and half.r the bit below it; sticky: a nonzero
\* amount lies below that bit.  Round to nearest, ties to even
DRoundHalf(half, sticky, e) ==
    DRenormalize(IF half.r = 1 /\ (sticky \/ half.q[1] % 2 = 1)
                 THEN BNAdd(half.q, <<1>>) ELSE half.q, e)

DRoundShifted(s1, sticky, e) ==
    DRoundHalf(BNDivSmall(s1.q, 2), s1.sticky \/ sticky, e)

DRoundBits(n, e, sticky, bl) ==
    IF bl = 0 THEN DZero
    ELSE IF bl <= MantBits
    THEN [m |-> BNShl(n, MantBits - bl), e |-> e - (MantBits - bl)]
    ELSE DRoundShifted(BNShr(n, bl - MantBits - 1), sticky, e + bl - MantBits)

\* the double nearest to n * 2^e (plus a nonzero amount below n's last bit
\* when sticky), ties to even; sticky is only given with more than
\* MantBits + 1 bits in n
DRound(n, e, sticky) == DRoundBits(n, e, sticky, BNBitLen(n))

\* float(n) for an int n
DFromNat(n) == DRound(BNFromNat(n), 0, FALSE)

DMin(a, b) == IF a < b THEN a ELSE b

DAdd(x, y) ==
    IF x = DZero THEN y
    ELSE IF y = DZero THEN x
    ELSE LET e0 == DMin(x.e, y.e)
         IN  DRound(BNAdd(BNShl(x.m, x.e - e0), BNShl(y.m, y.e - e0)), e0, FALSE)

\* x - y for x >= y
DSub(x, y) ==
    IF y = DZero THEN x
    ELSE LET e0 == DMin(x.e, y.e)
         IN  DRound(BNSub(BNShl(x.m, x.e - e0), BNShl(y.m, y.e - e0)), e0, FALSE)

DMul(x, y) ==
    IF x = DZero \/ y = DZero THEN DZero
    ELSE DRound(BNMul(x.m, y.m), x.e + y.e, FALSE)

\* x / float(k) for an int k, 0 < k < LimbBase
DDivNat(x, k) ==
    IF x = DZero THEN DZero
    ELSE LET d == BNDivSmall(BNShl(x.m, 2 * LimbBits), k)
         IN  DRound(d.q, x.e - 2 * LimbBits, d.r # 0)

\* x < y
DLt(x, y) ==
    IF y = DZero THEN FALSE
    ELSE IF x = DZero THEN TRUE
    ELSE IF x.e # y.e THEN x.e < y.e
    ELSE LET d == CHOOSE i \in 0..Len(x.m) :
                    /\ \A j \in (i + 1)..Len(x.m) : x.m[j] = y.m[j]
                    /\ i > 0 => x.m[i] # y.m[i]
         IN  d > 0 /\ x.m[d] < y.m[d]

\* int(x)
DTrunc(x) ==
    IF x = DZero THEN 0
    ELSE IF x.e >= 0 THEN BNToNat(BNShl(x.m, x.e))
    ELSE BNToNat(BNShr(x.m, 0 - x.e).q)

\* the float literal p/q written in decimal, e.g. 0.85 as DLit(85, 100)
DLit(p, q) == DDivNat(DFromNat(p), q)

\* the float literals of the program
Float1 == DFromNat(1)
Float100 == DFromNat(100)
Float01 == DLit(1, 10)
Float07 == DLit(70, 100)
Float08 == DLit(8, 10)
Float085 == DLit(85, 100)
Float12 == DLit(12, 10)

(***************************************************************************)
(* Division of doubles and signed doubles.  A signed double is             *)
(* [neg, abs]: abs a double as above, neg whether the value is below zero. *)
(***************************************************************************)
\* a < b for two naturals
BNLess(a, b) ==
    IF Len(a) # Len(b) THEN Len(a) < Len(b)
    ELSE \E i \in 1..Len(a) :
             /\ a[i] < b[i]
             /\ \A j \in (i + 1)..Len(a) : a[j] = b[j]

\* the largest digit d, lo <= d < hi, with b * d <= cur
RECURSIVE BNDigit(_, _, _, _)
BNDigit(cur, b, lo, hi) ==
    IF hi - lo <= 1 THEN lo
    ELSE LET mid == (lo + hi) \div 2
         IN  IF BNLess(cur, BNMulSmall(b, mid))
             THEN BNDigit(cur, b, lo, mid)
             ELSE BNDigit(cur, b, mid, hi)

\* one limb of the long division: the rest so far with the next limb of a
BNDivStep(limb, b, hi) ==
    LET cur == BNNorm(<<limb>> \o hi.r)
        d   == IF BNLess(cur, b) THEN 0 ELSE BNDigit(cur, b, 1, LimbBase)
    IN  [q |-> <<d>> \o hi.q, r |-> BNSub(cur, BNMulSmall(b, d))]

\* long division of the top n limbs of a by b
RECURSIVE BNDivLimbs(_, _, _)
BNDivLimbs(a, b, n) ==
    IF n = 0 THEN [q |-> <<>>, r |-> <<>>]
    ELSE BNDivStep(a[Len(a) - n + 1], b, BNDivLimbs(a, b, n - 1))

BNNormQuotient(d) == [q |-> BNNorm(d.q), r |-> d.r]

\* quotient and remainder of a by b, b > 0
BNDivMod(a, b) == BNNormQuotient(BNDivLimbs(a, b, Len(a)))

DQuotient(d, e) == DRound(d.q, e, d.r # <<>>)

\* x / y for y > 0
DDiv(x, y) ==
    IF x = DZero THEN DZero
    ELSE DQuotient(BNDivMod(BNShl(x.m, MantBits + 3), y.m),
                   x.e - y.e - (MantBits + 3))

FSigned(neg, abs) == [neg |-> neg /\ abs # DZero, abs |-> abs]

FZero == FSigned(FALSE, DZero)

\* float(n) for an int n >= 0
FFromNat(n) == FSigned(FALSE, DFromNat(n))

\* the float literal p/q written in decimal
FLit(p, q) == FSigned(FALSE, DLit(p, q))

FNeg(x) == FSigned(~x.neg, x.abs)

\* x < y
FLt(x, y) ==
    IF x.neg /\ ~y.neg THEN TRUE
    ELSE IF ~x.neg /\ y.neg THEN FALSE
    ELSE IF x.neg THEN DLt(y.abs, x.abs)
    ELSE DLt(x.abs, y.abs)

\* x + y
FAdd(x, y) ==
    IF x.neg = y.neg THEN FSigned(x.neg, DAdd(x.abs, y.abs))
    ELSE IF DLt(x.abs, y.abs) THEN FSigned(y.neg, DSub(y.abs, x.abs))
    ELSE FSigned(x.neg, DSub(x.abs, y.abs))

\* x - y
FSub(x, y) == FAdd(x, FNeg(y))

\* x * y
FMul(x, y) == FSigned(x.neg # y.neg, DMul(x.abs, y.abs))

\* x / y for y # 0
FDiv(x, y) == FSigned(x.neg # y.neg, DDiv(x.abs, y.abs))

\* min(x, y) and max(x, y) of Python: the first argument on a tie
FMin(x, y) == IF FLt(y, x) THEN y ELSE x
FMax(x, y) == IF FLt(x, y) THEN y ELSE x

\* the hundredths nearest to the exact value of a double, ties to even
DHundredthsOf(h) ==
    IF h.r > 50 \/ (h.r = 50 /\ ~h.sticky /\ h.q # <<>> /\ h.q[1] % 2 = 1)
       \/ (h.r = 50 /\ h.sticky)
    THEN BNAdd(h.q, <<1>>) ELSE h.q

DHundredthsShifted(s1) ==
    LET d == BNDivSmall(s1.q, 100)
    IN  DHundredthsOf([q |-> d.q, r |-> d.r, sticky |-> s1.sticky])

\* x * 10000 is m * 10000 * 2^e: its integer part and whether a fraction
\* was cut; the last two digits of the integer part are the rest below the
\* hundredths
DHundredths(x) ==
    IF x = DZero THEN <<>>
    ELSE IF x.e >= 0 THEN BNMulSmall(BNShl(x.m, x.e), 100)
    ELSE DHundredthsShifted(BNShr(BNMulSmall(x.m, 10000), 0 - x.e))

\* the double nearest to n / 100 for a natural n below 2^53
DFromHundredths(n) == DDivNat(DRound(n, 0, FALSE), 100)

\* round(x, 2)
FRound2(x) ==
    FSigned(x.neg, IF x.abs = DZero THEN DZero
                   ELSE DFromHundredths(DHundredths(x.abs)))

(***************************************************************************)
(* Text.  A string is a sequence of one-character strings; a token is a    *)
(* string.                                                                 *)
(***************************************************************************)
UpperChars == << "A", "B", "C", "D", "E", "F", "G", "H", "I", "J", "K", "L", "M",
                 "N", "O", "P", "Q", "R", "S", "T", "U", "V", "W", "X", "Y", "Z" >>
LowerChars == << "a", "b", "c", "d", "e", "f", "g", "h", "i", "j", "k", "l", "m",
                 "n", "o", "p", "q", "r", "s", "t", "u", "v", "w", "x", "y", "z" >>
DigitChars == { "0", "1", "2", "3", "4", "5", "6", "7", "8", "9" }
SpaceChars == { " ", "\t", "\n", "\r", "\f" }

\* str.lower() of one character
LowerChar(c) ==
    IF \E i \in 1..Len(UpperChars) : UpperChars[i] = c
    THEN LowerChars[CHOOSE i \in 1..Len(UpperChars) : UpperChars[i] = c]
    ELSE c

\* \w of the regular expression
IsWordChar(c) ==
    \/ \E i \in 1..Len(LowerChars) : LowerChars[i] = c \/ UpperChars[i] = c
    \/ c \in DigitChars
    \/ c = "_"

\* \s of the regular expression
IsSpaceChar(c) == c \in SpaceChars

\* text.lower()
StrLower(text) == [i \in 1..Len(text) |-> LowerChar(text[i])]

\* re.sub(r'[^\w\s]', '', t)
RECURSIVE RemovePunctuation(_)
RemovePunctuation(t) ==
    IF t = <<>> THEN <<>>
    ELSE IF IsWordChar(t[1]) \/ IsSpaceChar(t[1])
    THEN <<t[1]>> \o RemovePunctuation(Tail(t))
    ELSE RemovePunctuation(Tail(t))

\* t.split(): the maximal runs of non-whitespace characters; cur is the run
\* being read
RECURSIVE SplitFrom(_, _)
SplitFrom(t, cur) ==
    IF t = <<>> THEN (IF cur = <<>> THEN <<>> ELSE <<cur>>)
    ELSE IF IsSpaceChar(t[1])
    THEN (IF cur = <<>> THEN <<>> ELSE <<cur>>) \o SplitFrom(Tail(t), <<>>)
    ELSE SplitFrom(Tail(t), Append(cur, t[1]))

StrSplit(t) == SplitFrom(t, <<>>)

\* the replacements table of normalize_text, as (key, value) pairs
replacements ==
    << << <<"g","o","n","n","a">>, <<"g","o","i","n","g"," ","t","o">> >>,
       << <<"w","a","n","n","a">>, <<"w","a","n","t"," ","t","o">> >>,
       << <<"c","a","u","s","e">>, <<"b","e","c","a","u","s","e">> >>,
       << <<"c","o","s">>, <<"b","e","c","a","u","s","e">> >>,
       << <<"e","m">>, <<"t","h","e","m">> >>,
       << <<"w","a","l","k","i","n">>, <<"w","a","l","k","i","n","g">> >>,
       << <<"t","a","l","k","i","n">>, <<"t","a","l","k","i","n","g">> >>,
       << <<"r","u","n","n","i","n">>, <<"r","u","n","n","i","n","g">> >>,
       << <<"s","i","n","g","i","n">>, <<"s","i","n","g","i","n","g">> >>,
       << <<"n","o","t","h","i","n">>, <<"n","o","t","h","i","n","g">> >>,
       << <<"i","m">>, <<"i"," ","a","m">> >>,
       << <<"y","o","u","r","e">>, <<"y","o","u"," ","a","r","e">> >>,
       << <<"c","a","n","t">>, <<"c","a","n","n","o","t">> >>,
       << <<"d","o","n","t">>, <<"d","o"," ","n","o","t">> >>,
       << <<"w","o","n","t">>, <<"w","i","l","l"," ","n","o","t">> >> >>

\* replacements.get(w, w)
ReplacementsGet(w) ==
    IF \E i \in 1..Len(replacements) : replacements[i][1] = w
    THEN replacements[CHOOSE i \in 1..Len(replacements) : replacements[i][1] = w][2]
    ELSE w

normalize_text(text) ==
    LET t     == RemovePunctuation(StrLower(text))
        words == StrSplit(t)
    IN  [i \in 1..Len(words) |-> ReplacementsGet(words[i])]

(***************************************************************************)
(* difflib.SequenceMatcher(None, a, b) for len(b) < 200, where the         *)
(* autojunk heuristic is off.  Indices are Python's: 0-based, half-open.   *)
(***************************************************************************)
\* the length of the common run of a and b from (i, j) inside [.., ahi) x [.., bhi)
RECURSIVE RunLength(_, _, _, _, _, _)
RunLength(a, b, i, j, ahi, bhi) ==
    IF i < ahi /\ j < bhi /\ a[i + 1] = b[j + 1]
    THEN 1 + RunLength(a, b, i + 1, j + 1, ahi, bhi)
    ELSE 0

\* find_longest_match: the longest block a[i:i+k] = b[j:j+k] of the window,
\* of those the one that starts earliest in a, and of those earliest in b
find_longest_match(a, b, alo, ahi, blo, bhi) ==
    LET starts == (alo..(ahi - 1)) \X (blo..(bhi - 1))
        size   == [p \in starts |-> RunLength(a, b, p[1], p[2], ahi, bhi)]
        sizes  == {size[p] : p \in starts} \cup {0}
        best   == CHOOSE k \in sizes : \A n \in sizes : n <= k
    IN  IF best = 0 THEN <<alo, blo, 0>>
        ELSE LET is == {p[1] : p \in {q \in starts : size[q] = best}}
                 i  == CHOOSE x \in is : \A y \in is : x <= y
                 js == {j \in blo..(bhi - 1) : size[<<i, j>>] = best}
                 j  == CHOOSE x \in js : \A y \in js : x <= y
             IN  <<i, j, best>>

\* the blocks get_matching_blocks collects, sorted
RECURSIVE MatchingBlocks(_, _, _, _, _, _)
MatchingBlocks(a, b, alo, ahi, blo, bhi) ==
    LET x == find_longest_match(a, b, alo, ahi, blo, bhi)
        i == x[1]
        j == x[2]
        k == x[3]
    IN  IF k = 0 THEN <<>>
        ELSE (IF alo < i /\ blo < j
              THEN MatchingBlocks(a, b, alo, i, blo, j) ELSE <<>>)
             \o <<x>> \o
             (IF i + k < ahi /\ j + k < bhi
              THEN MatchingBlocks(a, b, i + k, ahi, j + k, bhi) ELSE <<>>)

\* the collapse of adjacent blocks: cur is the block being grown
RECURSIVE CollapseAdjacent(_, _)
CollapseAdjacent(blocks, cur) ==
    IF blocks = <<>> THEN (IF cur[3] > 0 THEN <<cur>> ELSE <<>>)
    ELSE LET n == blocks[1]
         IN  IF cur[1] + cur[3] = n[1] /\ cur[2] + cur[3] = n[2]
             THEN CollapseAdjacent(Tail(blocks), <<cur[1], cur[2], cur[3] + n[3]>>)
             ELSE (IF cur[3] > 0 THEN <<cur>> ELSE <<>>)
                  \o CollapseAdjacent(Tail(blocks), n)

get_matching_blocks(a, b) ==
    CollapseAdjacent(MatchingBlocks(a, b, 0, Len(a), 0, Len(b)), <<0, 0, 0>>)
    \o << <<Len(a), Len(b), 0>> >>

\* the loop of get_opcodes over the matching blocks, from position (i, j)
RECURSIVE OpcodesFrom(_, _, _)
OpcodesFrom(blocks, i, j) ==
    IF blocks = <<>> THEN <<>>
    ELSE LET ai   == blocks[1][1]
             bj   == blocks[1][2]
             size == blocks[1][3]
             tag  == IF i < ai /\ j < bj THEN "replace"
                     ELSE IF i < ai THEN "delete"
                     ELSE IF j < bj THEN "insert"
                     ELSE ""
         IN  (IF tag # "" THEN << <<tag, i, ai, j, bj>> >> ELSE <<>>)
             \o (IF size > 0
                 THEN << <<"equal", ai, ai + size, bj, bj + size>> >> ELSE <<>>)
             \o OpcodesFrom(Tail(blocks), ai + size, bj + size)

get_opcodes(a, b) == OpcodesFrom(get_matching_blocks(a, b), 0, 0)

\* the Python slice s[lo:hi] for 0 <= lo <= hi <= len(s)
Slice(s, lo, hi) == SubSeq(s, lo + 1, hi)

(***************************************************************************)
(* jellyfish.jaro_winkler_similarity(s1, s2), in binary64.                 *)
(***************************************************************************)
NatMax(a, b) == IF a > b THEN a ELSE b

\* the flagging loop from position i of s1: f1 and f2 are the flagged
\* positions (0-based) of s1 and s2
RECURSIVE JaroFlags(_, _, _, _, _, _)
JaroFlags(s1, s2, search_range, i, f1, f2) ==
    IF i >= Len(s1) THEN [f1 |-> f1, f2 |-> f2]
    ELSE LET low  == NatMax(0, i - search_range)
             hi   == DMin(i + search_range, Len(s2) - 1)
             hits == {j \in low..hi : j \notin f2 /\ s2[j + 1] = s1[i + 1]}
         IN  IF hits = {} THEN JaroFlags(s1, s2, search_range, i + 1, f1, f2)
             ELSE LET j == CHOOSE x \in hits : \A y \in hits : x <= y
                  IN  JaroFlags(s1, s2, search_range, i + 1,
                                f1 \cup {i}, f2 \cup {j})

\* the characters of s at the flagged positions, in order
RECURSIVE Flagged(_, _, _)
Flagged(s, f, i) ==
    IF i >= Len(s) THEN <<>>
    ELSE (IF i \in f THEN <<s[i + 1]>> ELSE <<>>) \o Flagged(s, f, i + 1)

\* the length of the common prefix of s1 and s2, up to j characters
RECURSIVE CommonPrefix(_, _, _, _)
CommonPrefix(s1, s2, i, j) ==
    IF i < j /\ s1[i + 1] = s2[i + 1] THEN CommonPrefix(s1, s2, i + 1, j) ELSE i

\* the Jaro weight of common_chars matches with trans_count transpositions
JaroWeight(common_chars, trans_count, s1_len, s2_len) ==
    DDivNat(DAdd(DAdd(DDivNat(DFromNat(common_chars), s1_len),
                      DDivNat(DFromNat(common_chars), s2_len)),
                 DDivNat(DFromNat(common_chars - trans_count), common_chars)), 3)

\* the Winkler boost for a common prefix of i characters
WinklerBoost(weight, i) ==
    IF DLt(Float07, weight) /\ i > 0
    THEN DAdd(weight, DMul(DMul(DFromNat(i), Float01),
                           DSub(Float1, weight)))
    ELSE weight

\* the number of transpositions between the flagged characters
TransCount(m1, m2) == Cardinality({k \in 1..Len(m1) : m1[k] # m2[k]}) \div 2

JaroWinklerFlagged(s1, s2, fl) ==
    IF fl.f1 = {} THEN DZero
    ELSE WinklerBoost(
             JaroWeight(Cardinality(fl.f1),
                        TransCount(Flagged(s1, fl.f1, 0), Flagged(s2, fl.f2, 0)),
                        Len(s1), Len(s2)),
             CommonPrefix(s1, s2, 0, DMin(DMin(Len(s1), Len(s2)), 4)))

jaro_winkler_similarity(s1, s2) ==
    IF Len(s1) = 0 \/ Len(s2) = 0 THEN DZero
    ELSE JaroWinklerFlagged(s1, s2,
             JaroFlags(s1, s2,
                       NatMax(0, (NatMax(Len(s1), Len(s2)) \div 2) - 1),
                       0, {}, {}))

(***************************************************************************)
(* Inputs.  A text is a sequence of raw words joined by single spaces.     *)
(* The long inputs pair performed texts over two raw words with target     *)
(* texts over two raw words; the short inputs pair performed texts over    *)
(* the whole vocabulary with targets of at most one raw word.              *)
(***************************************************************************)
\* "Im," normalizes to the one token "i am"
RawIm == <<"I", "m", ",">>
RawI == <<"i">>
RawWe == <<"w", "e">>
\* "We!" normalizes to "we"
RawWeBang == <<"W", "e", "!">>
\* "?!" normalizes to nothing
RawPunct == <<"?", "!">>
RawA == <<"a">>
RawAn == <<"a", "n">>
RawEvil == <<"e", "v", "i", "l">>
RawVeils == <<"v", "e", "i", "l", "s">>

UserLongVocab == {RawIm, RawWe}
TargetLongVocab == {RawI, RawWe}
RichVocab == {RawWe, RawWeBang, RawPunct, RawA, RawAn, RawEvil, RawVeils, RawI}

\* the texts of exactly n words of vocab
RECURSIVE TextsOfLength(_, _)
TextsOfLength(vocab, n) ==
    IF n = 0 THEN {<<>>}
    ELSE IF n = 1 THEN vocab
    ELSE {w \o <<" ">> \o t : w \in vocab, t \in TextsOfLength(vocab, n - 1)}

TextsUpTo(vocab, n) == UNION {TextsOfLength(vocab, k) : k \in 0..n}

\* the (performed, target) pairs a call is made with
Inputs ==
    (TextsUpTo(UserLongVocab, MaxUserWords)
        \X TextsUpTo(TargetLongVocab, MaxTargetWords))
    \cup (TextsUpTo(RichVocab, MaxRichWords) \X (RichVocab \cup {<<>>}))

(***************************************************************************)
(* The spans of the annotated output.  A span is                           *)
(* <span class='class' title='title% Match'>text</span>, title -1 when the *)
(* span has no title attribute.                                            *)
(***************************************************************************)
ClassGreen == "text-green-400 font-bold"
ClassYellow == "text-yellow-400 font-bold"
ClassStrike == "text-red-500 line-through opacity-50"
ClassExtra == "text-red-500 text-xs opacity-50"
ClassMissing == "text-gray-600 opacity-30"

Span(class, title, text) == [class |-> class, title |-> title, text |-> text]

\* sep.join(parts)
RECURSIVE StrJoin(_, _)
StrJoin(sep, parts) ==
    IF parts = <<>> THEN <<>>
    ELSE IF Len(parts) = 1 THEN parts[1]
    ELSE parts[1] \o sep \o StrJoin(sep, Tail(parts))

\* " ".join(html_output): the spans with a space between two spans
HtmlJoin(spans) == StrJoin(<<" ">>, [i \in 1..Len(spans) |-> <<spans[i]>>])

(***************************************************************************)
(* The lyric timing of src/setup_music.py: parse_lrc,                      *)
(* calculate_word_weights and the pieces of generate_lyrics_map and        *)
(* generate_heuristic_map.  A time is a signed double.                     *)
(***************************************************************************)
\* the k-th smallest element of a set of integers, k from 1
KthSmallest(S, k) == CHOOSE x \in S : Cardinality({y \in S : y < x}) = k - 1

\* text.split('\n')
SplitLines(text) ==
    LET breaks == {i \in 1..Len(text) : text[i] = "\n"}
        cuts   == breaks \cup {0, Len(text) + 1}
    IN  [k \in 1..(Cardinality(breaks) + 1) |->
            SubSeq(text, KthSmallest(cuts, k) + 1, KthSmallest(cuts, k + 1) - 1)]

\* text.strip()
StrStrip(text) ==
    LET solid == {i \in 1..Len(text) : ~IsSpaceChar(text[i])}
    IN  IF solid = {} THEN <<>>
        ELSE SubSeq(text, KthSmallest(solid, 1),
                    KthSmallest(solid, Cardinality(solid)))

IsDigitAt(line, i) == i <= Len(line) /\ line[i] \in DigitChars

IsCharAt(line, i, c) == i <= Len(line) /\ line[i] = c

\* how many digits group 3 of the match of
\* \[(\d{2}):(\d{2})\.(\d{2,3})\](.*) at the start of line has; 0 when
\* the line does not match
FractionDigits(line) ==
    IF /\ IsCharAt(line, 1, "[")
       /\ IsDigitAt(line, 2) /\ IsDigitAt(line, 3)
       /\ IsCharAt(line, 4, ":")
       /\ IsDigitAt(line, 5) /\ IsDigitAt(line, 6)
       /\ IsCharAt(line, 7, ".")
       /\ IsDigitAt(line, 8) /\ IsDigitAt(line, 9)
    THEN IF IsDigitAt(line, 10) /\ IsCharAt(line, 11, "]") THEN 3
         ELSE IF IsCharAt(line, 10, "]") THEN 2
         ELSE 0
    ELSE 0

\* the value of a decimal digit
DigitValue(c) ==
    CASE c = "0" -> 0 [] c = "1" -> 1 [] c = "2" -> 2 [] c = "3" -> 3
      [] c = "4" -> 4 [] c = "5" -> 5 [] c = "6" -> 6 [] c = "7" -> 7
      [] c = "8" -> 8 [] c = "9" -> 9

\* int(digits)
RECURSIVE IntOfDigits(_)
IntOfDigits(digits) ==
    IF digits = <<>> THEN 0
    ELSE 10 * IntOfDigits(SubSeq(digits, 1, Len(digits) - 1))
         + DigitValue(digits[Len(digits)])

\* (int(group 1) * 60) + int(group 2) + float("0." + group 3)
TimestampOf(line, digits) ==
    FAdd(FFromNat(IntOfDigits(SubSeq(line, 2, 3)) * 60
                  + IntOfDigits(SubSeq(line, 5, 6))),
         FLit(IntOfDigits(SubSeq(line, 8, 7 + digits)),
              IF digits = 2 THEN 100 ELSE 1000))

\* group 4, stripped
TagText(line, digits) == StrStrip(SubSeq(line, 9 + digits, Len(line)))

\* the body of the loop of parse_lrc: the entries one line appends
ParseLine(line) ==
    IF FractionDigits(line) > 0 /\ TagText(line, FractionDigits(line)) # <<>>
    THEN << [time |-> TimestampOf(line, FractionDigits(line)),
             text |-> TagText(line, FractionDigits(line))] >>
    ELSE <<>>

RECURSIVE ParseLines(_)
ParseLines(lines) ==
    IF lines = <<>> THEN <<>>
    ELSE ParseLine(lines[1]) \o ParseLines(Tail(lines))

\* a variant that returns the entries sorted by time
ParseLrcSorted(lrc_text) ==
    LET found == ParseLines(SplitLines(lrc_text))
        rank(i) == Cardinality({j \in 1..Len(found) :
                                   \/ FLt(found[j].time, found[i].time)
                                   \/ found[j].time = found[i].time /\ j < i})
    IN  [k \in 1..Len(found) |->
            found[CHOOSE i \in 1..Len(found) : rank(i) = k - 1]]

parse_lrc(lrc_text) == ParseLines(SplitLines(lrc_text))

\* a variant that holds a word from nine characters on
WordWeightLongAbove8(word) ==
    IF Len(word) <= 2 THEN FMul(FFromNat(Len(word)), FLit(6, 10))
    ELSE IF Len(word) <= 4 THEN FMul(FFromNat(Len(word)), FLit(9, 10))
    ELSE IF Len(word) > 8 THEN FMul(FFromNat(Len(word)), FLit(12, 10))
    ELSE FFromNat(Len(word))

\* the weight of one word: its length, scaled for short and long words
WordWeight(word) ==
    IF Len(word) <= 2 THEN FMul(FFromNat(Len(word)), FLit(6, 10))
    ELSE IF Len(word) <= 4 THEN FMul(FFromNat(Len(word)), FLit(9, 10))
    ELSE IF Len(word) >= 8 THEN FMul(FFromNat(Len(word)), FLit(12, 10))
    ELSE FFromNat(Len(word))

\* total_weight after the first n words
RECURSIVE TotalWeight(_, _)
TotalWeight(weights, n) ==
    IF n = 0 THEN FZero ELSE FAdd(TotalWeight(weights, n - 1), weights[n])

calculate_word_weights(words) ==
    LET weights == [i \in 1..Len(words) |-> WordWeight(words[i])]
    IN  [weights |-> weights, total |-> TotalWeight(weights, Len(words))]

\* a variant that divides the budget by 1 whatever the total weight is
TotalAlwaysOne(total) == FFromNat(1)

\* if total_weight == 0: total_weight = 1
TotalOrOne(total) == IF total = FZero THEN FFromNat(1) ELSE total

\* word_cursor before the word idx (from 0) of a line
RECURSIVE WordCursor(_, _, _, _)
WordCursor(start, weights, unit, idx) ==
    IF idx = 0 THEN start
    ELSE FAdd(WordCursor(start, weights, unit, idx - 1),
              FMul(weights[idx], unit))

\* a variant that ends a word from its rounded start
WordsDataRoundedStart(words, start, weights, unit) ==
    [i \in 1..Len(words) |->
        [text  |-> words[i],
         start |-> FRound2(WordCursor(start, weights, unit, i - 1)),
         end   |-> FRound2(FAdd(FRound2(WordCursor(start, weights, unit, i - 1)),
                                FMul(weights[i], unit)))]]

\* line_words_data: the loop over the words of a line that starts at
\* start and gives unit seconds to a unit of weight
WordsData(words, start, weights, unit) ==
    [i \in 1..Len(words) |->
        [text  |-> words[i],
         start |-> FRound2(WordCursor(start, weights, unit, i - 1)),
         end   |-> FRound2(FAdd(WordCursor(start, weights, unit, i - 1),
                                FMul(weights[i], unit)))]]

\* the entry of lyrics_map for a line
MapEntry(time, text, words_data) ==
    [time |-> FRound2(time), text |-> text, words |-> words_data]

\* time_gap of line i (from 1) of parsed_lines
TimeGap(lines, i) ==
    IF i < Len(lines) THEN FSub(lines[i + 1].time, lines[i].time)
    ELSE FFromNat(4)

\* a variant that lets a line last until the next one
LineDurationGapOnly(time_gap, text) == time_gap

\* a variant that gives a line its reading time whatever follows
LineDurationReadingOnly(time_gap, text) ==
    FAdd(FMul(FFromNat(Len(text)), FLit(15, 100)), FFromNat(1))

\* line_duration = min(time_gap, len(text) * 0.15 + 1.0)
LineDuration(time_gap, text) ==
    FMin(time_gap, FAdd(FMul(FFromNat(Len(text)), FLit(15, 100)), FFromNat(1)))

\* a variant without the lower limit 0
IntroOffsetUnclamped(first_time) == FSub(first_time, FFromNat(4))

\* max(0, first_time - 4.0)
IntroOffset(first_time) == FMax(FZero, FSub(first_time, FFromNat(4)))

\* INTRO_OFFSET and LINE_GAP of generate_heuristic_map
INTRO_OFFSET == FFromNat(8)
LINE_GAP == FFromNat(1)

\* [l.strip() for l in text_block.split('\n') if l.strip()]
RECURSIVE StrippedLines(_)
StrippedLines(lines) ==
    IF lines = <<>> THEN <<>>
    ELSE (IF StrStrip(lines[1]) # <<>> THEN <<StrStrip(lines[1])>> ELSE <<>>)
         \o StrippedLines(Tail(lines))

\* a variant that spreads the lines over the track from its beginning
AvgLineDurWholeTrack(duration, n_lines) ==
    FDiv(FMul(FFromNat(duration), FLit(95, 100)),
         FFromNat(NatMax(1, n_lines)))

\* avg_line_dur = max(0, duration * 0.95 - INTRO_OFFSET) / max(1, len(lines))
AvgLineDur(duration, n_lines) ==
    FDiv(FMax(FZero, FSub(FMul(FFromNat(duration), FLit(95, 100)),
                          INTRO_OFFSET)),
         FFromNat(NatMax(1, n_lines)))

GENERIC_LYRICS ==
    << "[", "0", "0", ":", "1", "0", ".", "0", "0", "]", " ", "(", "I",
       "n", "s", "t", "r", "u", "m", "e", "n", "t", "a", "l", " ", "I",
       "n", "t", "r", "o", ")", "\n", "[", "0", "0", ":", "1", "5", ".",
       "0", "0", "]", " ", "G", "e", "t", " ", "r", "e", "a", "d", "y",
       " ", "t", "o", " ", "s", "i", "n", "g", ".", ".", ".", "\n", "[",
       "0", "0", ":", "2", "0", ".", "0", "0", "]", " ", "(", "W", "a",
       "i", "t", "i", "n", "g", " ", "f", "o", "r", " ", "l", "y", "r",
       "i", "c", "s", ".", ".", ".", ")", "\n", "[", "0", "0", ":", "2",
       "5", ".", "0", "0", "]", " ", "F", "e", "e", "l", " ", "t", "h",
       "e", " ", "r", "h", "y", "t", "h", "m", "!", "\n", "[", "0", "0",
       ":", "3", "0", ".", "0", "0", "]", " ", "S", "i", "n", "g", " ",
       "y", "o", "u", "r", " ", "h", "e", "a", "r", "t", " ", "o", "u",
       "t", "!" >>

\* DEFAULT_SONG['lyrics']
DEFAULT_SONG_lyrics ==
    << "[", "0", "0", ":", "0", "4", ".", "1", "0", "]", " ", "W", "e", " ",
       "w", "i", "s", "h", " ", "y", "o", "u", " ", "a", " ", "M", "e", "r",
       "r", "y", " ", "C", "h", "r", "i", "s", "t", "m", "a", "s", "\n",
       "[", "0", "0", ":", "0", "6", ".", "9", "0", "]", " ", "W", "e", " ",
       "w", "i", "s", "h", " ", "y", "o", "u", " ", "a", " ", "M", "e", "r",
       "r", "y", " ", "C", "h", "r", "i", "s", "t", "m", "a", "s", "\n",
       "[", "0", "0", ":", "0", "9", ".", "6", "0", "]", " ", "W", "e", " ",
       "w", "i", "s", "h", " ", "y", "o", "u", " ", "a", " ", "M", "e", "r",
       "r", "y", " ", "C", "h", "r", "i", "s", "t", "m", "a", "s", "\n",
       "[", "0", "0", ":", "1", "2", ".", "1", "0", "]", " ", "A", "n", "d",
       " ", "a", " ", "H", "a", "p", "p", "y", " ", "N", "e", "w", " ", "Y",
       "e", "a", "r", "\n", "[", "0", "0", ":", "1", "4", ".", "6", "0",
       "]", " ", "G", "o", "o", "d", " ", "t", "i", "d", "i", "n", "g", "s",
       " ", "w", "e", " ", "b", "r", "i", "n", "g", "\n", "[", "0", "0",
       ":", "1", "7", ".", "1", "0", "]", " ", "T", "o", " ", "y", "o", "u",
       " ", "a", "n", "d", " ", "y", "o", "u", "r", " ", "k", "i", "n",
       "\n", "[", "0", "0", ":", "1", "9", ".", "9", "0", "]", " ", "G",
       "o", "o", "d", " ", "t", "i", "d", "i", "n", "g", "s", " ", "f", "o",
       "r", " ", "C", "h", "r", "i", "s", "t", "m", "a", "s", "\n", "[",
       "0", "0", ":", "2", "2", ".", "6", "0", "]", " ", "A", "n", "d", " ",
       "a", " ", "H", "a", "p", "p", "y", " ", "N", "e", "w", " ", "Y", "e",
       "a", "r", "\n", "[", "0", "0", ":", "2", "5", ".", "0", "0", "]",
       " ", "(", "I", "n", "s", "t", "r", "u", "m", "e", "n", "t", "a", "l",
       " ", "B", "r", "e", "a", "k", ")", "\n", "[", "0", "0", ":", "3",
       "5", ".", "6", "0", "]", " ", "N", "o", "w", " ", "b", "r", "i", "n",
       "g", " ", "u", "s", " ", "s", "o", "m", "e", " ", "f", "i", "g", "g",
       "y", " ", "p", "u", "d", "d", "i", "n", "g", "\n", "[", "0", "0",
       ":", "3", "8", ".", "1", "0", "]", " ", "N", "o", "w", " ", "b", "r",
       "i", "n", "g", " ", "u", "s", " ", "s", "o", "m", "e", " ", "f", "i",
       "g", "g", "y", " ", "p", "u", "d", "d", "i", "n", "g", "\n", "[",
       "0", "0", ":", "4", "0", ".", "9", "0", "]", " ", "N", "o", "w", " ",
       "b", "r", "i", "n", "g", " ", "u", "s", " ", "s", "o", "m", "e", " ",
       "f", "i", "g", "g", "y", " ", "p", "u", "d", "d", "i", "n", "g",
       "\n", "[", "0", "0", ":", "4", "3", ".", "6", "0", "]", " ", "A",
       "n", "d", " ", "a", " ", "c", "u", "p", " ", "o", "f", " ", "g", "o",
       "o", "d", " ", "c", "h", "e", "e", "r", "\n", "[", "0", "0", ":",
       "4", "6", ".", "0", "0", "]", " ", "W", "e", " ", "w", "o", "n", "'",
       "t", " ", "g", "o", " ", "u", "n", "t", "i", "l", " ", "w", "e", " ",
       "g", "e", "t", " ", "s", "o", "m", "e", "\n", "[", "0", "0", ":",
       "4", "8", ".", "6", "0", "]", " ", "W", "e", " ", "w", "o", "n", "'",
       "t", " ", "g", "o", " ", "u", "n", "t", "i", "l", " ", "w", "e", " ",
       "g", "e", "t", " ", "s", "o", "m", "e", "\n", "[", "0", "0", ":",
       "5", "1", ".", "3", "0", "]", " ", "W", "e", " ", "w", "o", "n", "'",
       "t", " ", "g", "o", " ", "u", "n", "t", "i", "l", " ", "w", "e", " ",
       "g", "e", "t", " ", "s", "o", "m", "e", "\n", "[", "0", "0", ":",
       "5", "3", ".", "9", "0", "]", " ", "S", "o", " ", "b", "r", "i", "n",
       "g", " ", "i", "t", " ", "r", "i", "g", "h", "t", " ", "h", "e", "r",
       "e" >>

(***************************************************************************)
(* calculate_score_advanced, one step per opcode of the alignment.         *)
(***************************************************************************)
VARIABLES
    jellyfish,       \* whether the jellyfish package can be imported
    pc,              \* where the program is
    user_text,       \* the arguments of the call
    official_text,
    user_words,      \* the normalized token sequences
    target_words,
    opcodes,         \* matcher.get_opcodes()
    op_done,         \* how many opcodes the loop has processed
    html_output,
    weighted_score,  \* a double
    final_score,
    result,          \* the returned (score, annotated)
    norm_calls,      \* the calls of normalize_text made so far
    mpc,             \* where generate_lyrics_map is
    lrc_text,        \* the arguments of generate_lyrics_map
    duration,
    parsed_lines,
    lines,           \* the lines of generate_heuristic_map
    avg_line_dur,
    current_time,
    line_no,         \* how many lines the loop has processed
    line_duration,   \* the time budget of the line processed last
    lyrics_map,
    map_result,      \* the returned (text, lyrics_map, intro_offset)
    wpc,             \* where calculate_word_weights is
    the_words,       \* its argument: words
    the_weights,     \* its list: weights
    total_weight,
    weights_result,  \* the returned (weights, total_weight)
    kpc,             \* where karaoke_maker.py is
    reduction,       \* args.reduction, a float or "nan"
    separator_pkg,   \* whether audio_separator can be imported
    input_path,      \* "file", "dir" or "missing"
    audio_files,     \* the files to process, numbered from 1
    file_no,         \* the file in progress
    current_output_file, \* a file, or 0 for None
    disk,            \* the output of each file: "none", "partial", "complete"
    modes_run,       \* the processing modes main has called
    cleanups,        \* the runs of cleanup() and what they saw
    exit_status,     \* the exit status, -1 while running
    board_file,      \* leaderboard.json
    first_file,      \* leaderboard.json before the first request
    hpc,             \* where each handler of /leaderboard is
    request,         \* the request of each handler
    data,            \* the list each handler works on
    status,          \* the status each handler returned, 0 for none yet
    overlap,         \* whether another handler wrote the file a handler has open
    requests_made,   \* the requests received so far
    posts_saved      \* the POST requests answered with 'saved' so far

scoreVars == << jellyfish, pc, user_text, official_text, user_words,
                target_words, opcodes, op_done, html_output, weighted_score,
                final_score, result >>

mapVars == << mpc, lrc_text, duration, parsed_lines, lines, avg_line_dur,
              current_time, line_no, line_duration, lyrics_map, map_result >>

weightVars == << wpc, the_words, the_weights, total_weight, weights_result >>

makerVars == << kpc, reduction, separator_pkg, input_path, audio_files,
                file_no, current_output_file, disk, modes_run, cleanups,
                exit_status >>

boardVars == << board_file, first_file, hpc, request, data, status, overlap,
                requests_made, posts_saved >>

restVars == << weightVars, makerVars, boardVars >>

vars == << scoreVars, norm_calls, mapVars, restVars >>

\* duration=None
NoDuration == -1

NoMap == [text |-> <<>>, map |-> <<>>, intro |-> FZero]

\* nothing of setup_music.py has run
MapInit ==
    /\ mpc = "idle"
    /\ lrc_text = <<>>
    /\ duration = NoDuration
    /\ parsed_lines = <<>>
    /\ lines = <<>>
    /\ avg_line_dur = FZero
    /\ current_time = FZero
    /\ line_no = 0
    /\ line_duration = FZero
    /\ lyrics_map = <<>>
    /\ map_result = NoMap

NoWeights == [weights |-> <<>>, total |-> FZero]

\* calculate_word_weights has not been called
WeightInit ==
    /\ wpc = "idle"
    /\ the_words = <<>>
    /\ the_weights = <<>>
    /\ total_weight = FZero
    /\ weights_result = NoWeights

\* the float a -r argument parses to
ArgFloat(x) == [nan |-> FALSE, val |-> x]

\* float("nan")
ArgNaN == [nan |-> TRUE, val |-> FZero]

\* how many audio files the input directory holds
MaxFiles == 2

\* karaoke_maker.py has not been started
MakerInit ==
    /\ kpc = "idle"
    /\ reduction = ArgFloat(FZero)
    /\ separator_pkg = "installed"
    /\ input_path = "missing"
    /\ audio_files = <<>>
    /\ file_no = 0
    /\ current_output_file = 0
    /\ disk = [f \in 1..MaxFiles |-> "none"]
    /\ modes_run = <<>>
    /\ cleanups = <<>>
    /\ exit_status = -1

MaxHandlers == 2

\* the threads of the server that handle requests
Handlers == 1..MaxHandlers

\* request.json without a key: None, {}
NoEntry == [keys |-> {}, name |-> "", score |-> 0, kind |-> "num"]

NoRequest == [method |-> "", entry |-> NoEntry]

\* leaderboard.json does not exist
NoFile == [state |-> "missing", list |-> <<>>]

\* the handlers before any request
HandlersInit ==
    /\ hpc = [h \in Handlers |-> "idle"]
    /\ request = [h \in Handlers |-> NoRequest]
    /\ data = [h \in Handlers |-> <<>>]
    /\ status = [h \in Handlers |-> 0]
    /\ overlap = [h \in Handlers |-> FALSE]
    /\ requests_made = 0
    /\ posts_saved = 0

RestInit == WeightInit /\ MakerInit /\ HandlersInit

NoResult == [score |-> -1, annotated |-> <<>>]

CoreInit ==
    /\ jellyfish \in {"installed", "missing"}
    /\ pc = "import"
    /\ user_text = <<>>
    /\ official_text = <<>>
    /\ user_words = <<>>
    /\ target_words = <<>>
    /\ opcodes = <<>>
    /\ op_done = 0
    /\ html_output = <<>>
    /\ weighted_score = DZero
    /\ final_score = 0
    /\ result = NoResult
    /\ norm_calls = <<>>
    /\ MapInit
    /\ RestInit

Init == CoreInit /\ board_file = NoFile /\ first_file = NoFile

\* import jellyfish, at the load of the module: without the package the
\* import raises and the module defines nothing
ImportModule ==
    /\ pc = "import"
    /\ pc' = IF jellyfish = "installed" THEN "idle" ELSE "ImportError"
    /\ UNCHANGED << jellyfish, user_text, official_text, user_words,
                    target_words, opcodes, op_done, html_output,
                    weighted_score, final_score, result >>
    /\ UNCHANGED << norm_calls, mapVars, restVars >>

\* the call, and the two normalize_text calls that open it
Call(u, t) ==
    /\ pc = "idle"
    /\ user_text' = u
    /\ official_text' = t
    /\ user_words' = normalize_text(u)
    /\ target_words' = normalize_text(t)
    /\ pc' = "normalized"
    /\ UNCHANGED << jellyfish, opcodes, op_done, html_output, weighted_score,
                    final_score, result >>
    /\ UNCHANGED << norm_calls, mapVars, restVars >>

\* a variant without the guard on the empty target
TargetNeverEmpty(words) == FALSE

\* if not target_words
TargetIsEmpty(words) == Len(words) = 0

\* a variant that returns the normalized tokens in place of the text
EarlyReturnNormalized(text) ==
    [score |-> 0, annotated |-> StrJoin(<<" ">>, normalize_text(text))]

\* return 0, user_text
EarlyReturn(text) == [score |-> 0, annotated |-> text]

\* if not target_words: return 0, user_text
ReturnEmptyTarget ==
    /\ pc = "normalized"
    /\ TargetIsEmpty(target_words)
    /\ result' = EarlyReturn(user_text)
    /\ pc' = "done"
    /\ UNCHANGED << jellyfish, user_text, official_text, user_words,
                    target_words, opcodes, op_done, html_output,
                    weighted_score, final_score >>
    /\ UNCHANGED << norm_calls, mapVars, restVars >>

\* the matcher and the initial values of the loop
Align ==
    /\ pc = "normalized"
    /\ ~TargetIsEmpty(target_words)
    /\ opcodes' = get_opcodes(user_words, target_words)
    /\ op_done' = 0
    /\ html_output' = <<>>
    /\ weighted_score' = DZero
    /\ pc' = "loop"
    /\ UNCHANGED << jellyfish, user_text, official_text, user_words,
                    target_words, final_score, result >>
    /\ UNCHANGED << norm_calls, mapVars, restVars >>

total_possible == Len(target_words)

\* the opcode the loop is at
CurrentOp == opcodes[op_done + 1]

AtOpcode(tag) ==
    /\ pc = "loop"
    /\ op_done < Len(opcodes)
    /\ CurrentOp[1] = tag

\* what an opcode's branch leaves behind
Advance(html, score) ==
    /\ html_output' = html
    /\ weighted_score' = score
    /\ op_done' = op_done + 1
    /\ UNCHANGED << jellyfish, pc, user_text, official_text, user_words,
                    target_words, opcodes, final_score, result >>
    /\ UNCHANGED << norm_calls, mapVars, restVars >>

\* a variant that credits 0.8 for a token of an equal run
RECURSIVE AddPartials(_, _)
AddPartials(score, n) ==
    IF n = 0 THEN score ELSE AddPartials(DAdd(score, Float08), n - 1)

\* weighted_score += 1.0, n times
RECURSIVE AddOnes(_, _)
AddOnes(score, n) ==
    IF n = 0 THEN score ELSE AddOnes(DAdd(score, Float1), n - 1)

\* tag == 'equal'
OpEqual ==
    /\ AtOpcode("equal")
    /\ LET ws == Slice(user_words, CurrentOp[2], CurrentOp[3])
       IN  Advance(html_output \o [i \in 1..Len(ws) |-> Span(ClassGreen, -1, ws[i])],
                   AddOnes(weighted_score, Len(ws)))

\* a variant whose first threshold is not strict
PairOutcomeInclusive(u_word, similarity) ==
    IF ~DLt(similarity, Float085)
    THEN [span |-> Span(ClassGreen, -1, u_word), tenths |-> 10]
    ELSE IF DLt(Float07, similarity)
    THEN [span |-> Span(ClassYellow,
                        DTrunc(DMul(similarity, Float100)), u_word),
          tenths |-> 8]
    ELSE [span |-> Span(ClassStrike, -1, u_word), tenths |-> 0]

\* the branch on similarity of one pair of a replace run: the span and the
\* credit, in tenths
PairOutcome(u_word, similarity) ==
    IF DLt(Float085, similarity)
    THEN [span |-> Span(ClassGreen, -1, u_word), tenths |-> 10]
    ELSE IF DLt(Float07, similarity)
    THEN [span |-> Span(ClassYellow,
                        DTrunc(DMul(similarity, Float100)), u_word),
          tenths |-> 8]
    ELSE [span |-> Span(ClassStrike, -1, u_word), tenths |-> 0]

\* weighted_score += 1.0, += 0.8, or nothing
AddCredit(score, tenths) ==
    IF tenths = 10 THEN DAdd(score, Float1)
    ELSE IF tenths = 8 THEN DAdd(score, Float08)
    ELSE score

\* the body of the loop over idx of a replace run
ReplaceStep(user_segment, target_segment, idx, acc) ==
    LET u_word == IF idx < Len(user_segment) THEN user_segment[idx + 1] ELSE <<>>
        t_word == IF idx < Len(target_segment) THEN target_segment[idx + 1] ELSE <<>>
    IN  IF u_word # <<>> /\ t_word # <<>>
        THEN LET o == PairOutcome(u_word, jaro_winkler_similarity(u_word, t_word))
             IN  [html  |-> Append(acc.html, o.span),
                  score |-> AddCredit(acc.score, o.tenths)]
        ELSE IF u_word # <<>>
        THEN [html  |-> Append(acc.html, Span(ClassExtra, -1, u_word)),
              score |-> acc.score]
        ELSE acc

\* for idx in range(max(len(user_segment), len(target_segment)))
RECURSIVE ReplaceLoop(_, _, _, _)
ReplaceLoop(user_segment, target_segment, idx, acc) ==
    IF idx >= NatMax(Len(user_segment), Len(target_segment)) THEN acc
    ELSE ReplaceLoop(user_segment, target_segment, idx + 1,
                     ReplaceStep(user_segment, target_segment, idx, acc))

\* tag == 'replace'
OpReplace ==
    /\ AtOpcode("replace")
    /\ LET r == ReplaceLoop(Slice(user_words, CurrentOp[2], CurrentOp[3]),
                            Slice(target_words, CurrentOp[4], CurrentOp[5]), 0,
                            [html |-> html_output, score |-> weighted_score])
       IN  Advance(r.html, r.score)

\* the span of an insert run
MissingSpan(words) ==
    Span(ClassMissing, -1, <<"[">> \o StrJoin(<<" ">>, words) \o <<"]">>)

\* a variant that renders one marker per token of an insert run
OpInsertPerToken ==
    /\ AtOpcode("insert")
    /\ LET ws == Slice(target_words, CurrentOp[4], CurrentOp[5])
       IN  Advance(html_output \o [i \in 1..Len(ws) |-> MissingSpan(<<ws[i]>>)],
                   weighted_score)

\* tag == 'insert'
OpInsert ==
    /\ AtOpcode("insert")
    /\ Advance(Append(html_output,
                      MissingSpan(Slice(target_words, CurrentOp[4], CurrentOp[5]))),
               weighted_score)

\* a variant that renders a delete run as one span
ExtraSpansJoined(words) ==
    << Span(ClassExtra, -1, StrJoin(<<" ">>, words)) >>

\* the spans of a delete run
ExtraSpans(words) == [i \in 1..Len(words) |-> Span(ClassExtra, -1, words[i])]

\* tag == 'delete'
OpDelete ==
    /\ AtOpcode("delete")
    /\ Advance(html_output \o
                   ExtraSpans(Slice(user_words, CurrentOp[2], CurrentOp[3])),
               weighted_score)

\* int((weighted_score / total_possible) * 100), or 0
RawScore(score, total) ==
    IF total > 0 THEN DTrunc(DMul(DDivNat(score, total), Float100)) ELSE 0

\* Final Score Calculation
FinalScore ==
    /\ pc = "loop"
    /\ op_done = Len(opcodes)
    /\ final_score' = RawScore(weighted_score, total_possible)
    /\ pc' = "bonus"
    /\ UNCHANGED << jellyfish, user_text, official_text, user_words,
                    target_words, opcodes, op_done, html_output,
                    weighted_score, result >>
    /\ UNCHANGED << norm_calls, mapVars, restVars >>

\* 0.8 < length_ratio < 1.2 for length_ratio = n_user / n_target
RatioSimilar(n_user, n_target) ==
    LET length_ratio == DDivNat(DFromNat(n_user), n_target)
    IN  DLt(Float08, length_ratio) /\ DLt(length_ratio, Float12)

\* if final_score < 50 and len(user_words) > 0
BonusGuard(score, n_user) == score < 50 /\ n_user > 0

\* a variant that repeats the bonus while the score is below 50
RECURSIVE VibeBoostIterated(_, _, _)
VibeBoostIterated(score, n_user, n_target) ==
    IF BonusGuard(score, n_user) /\ RatioSimilar(n_user, n_target)
    THEN VibeBoostIterated(score + 10, n_user, n_target) ELSE score

\* a variant that gives the bonus whatever the two lengths are
VibeBoostAlways(score, n_user, n_target) ==
    IF score < 50 THEN score + 10 ELSE score

\* the bonus logic: the score after it
VibeBoost(score, n_user, n_target) ==
    IF BonusGuard(score, n_user) /\ RatioSimilar(n_user, n_target)
    THEN score + 10 ELSE score

\* the bonus logic and the return; the division of the length ratio raises
\* ZeroDivisionError on an empty target
BonusAndReturn ==
    /\ pc = "bonus"
    /\ IF BonusGuard(final_score, Len(user_words)) /\ Len(target_words) = 0
       THEN /\ pc' = "ZeroDivisionError"
            /\ UNCHANGED << final_score, result >>
       ELSE /\ final_score' =
                  VibeBoost(final_score, Len(user_words), Len(target_words))
            /\ result' = [score |-> DMin(100, final_score'),
                          annotated |-> HtmlJoin(html_output)]
            /\ pc' = "done"
    /\ UNCHANGED << jellyfish, user_text, official_text, user_words,
                    target_words, opcodes, op_done, html_output, weighted_score >>
    /\ UNCHANGED << norm_calls, mapVars, restVars >>

Next ==
    \/ ImportModule
    \/ pc = "idle" /\ \E in \in Inputs : Call(in[1], in[2])
    \/ ReturnEmptyTarget
    \/ Align
    \/ OpEqual
    \/ OpReplace
    \/ OpInsert
    \/ OpDelete
    \/ FinalScore
    \/ BonusAndReturn

Spec == Init /\ [][Next]_vars

(***************************************************************************)
(* The calls of normalize_text, one after the other.                       *)
(***************************************************************************)
\* how many calls of normalize_text a run makes
MaxCalls == 3

NormTexts == {RawIm, RawWe, RawWeBang, RawPunct, RawWe \o <<" ">> \o RawIm, <<>>}

\* a variant whose list of words outlives the call
NormalizeCallShared(text) ==
    /\ Len(norm_calls) < MaxCalls
    /\ norm_calls' =
           Append(norm_calls,
                  [text   |-> text,
                   tokens |-> (IF norm_calls = <<>> THEN <<>>
                               ELSE norm_calls[Len(norm_calls)].tokens)
                              \o normalize_text(text)])
    /\ UNCHANGED << scoreVars, mapVars, restVars >>

\* one call of normalize_text and what it returned
NormalizeCall(text) ==
    /\ Len(norm_calls) < MaxCalls
    /\ norm_calls' = Append(norm_calls, [text   |-> text,
                                         tokens |-> normalize_text(text)])
    /\ UNCHANGED << scoreVars, mapVars, restVars >>

NextNormalize == \E text \in NormTexts : NormalizeCall(text)

\* main.py is loaded with every package it imports
InitLoaded == Init /\ jellyfish = "installed"

SpecNormalize == InitLoaded /\ [][NextNormalize]_vars

(***************************************************************************)
(* generate_lyrics_map and generate_heuristic_map, one step per line.      *)
(***************************************************************************)
\* how many lines a lyrics text has
MaxLrcLines == 3

\* a tagged line at 1.0
LineFirst ==
    << "[", "0", "0", ":", "0", "1", ".", "0", "0", "]", " ", "h", "i", " ",
       "y", "o", "u" >>
\* a tagged line with three fractional digits and no space, at 1.325
LineMillis ==
    << "[", "0", "0", ":", "0", "1", ".", "3", "2", "5", "]", "a" >>
\* a tagged line at 63.0 with a word of nine letters
LineLong ==
    << "[", "0", "1", ":", "0", "3", ".", "0", "0", "]", " ", "e", "v",
       "e", "r", "y", "b", "o", "d", "y", " ", "s", "i", "n", "g", "s" >>
\* a tagged line without text
LineNoText ==
    << "[", "0", "1", ":", "0", "2", ".", "0", "0", "]", " ", " " >>
\* a line without a tag
LinePlain ==
    << "l", "a", " ", "d", "i", " " >>
\* a line whose tag does not open it
LineIndented ==
    << " ", "[", "0", "1", ":", "0", "1", ".", "0", "0", "]", " ", "o",
       "h" >>
\* a line whose tag has one fractional digit
LineOneDigit ==
    << "[", "0", "1", ":", "0", "9", ".", "5", "]", " ", "x" >>
\* a blank line
LineBlank ==
    << " " >>

LrcVocab == {LineFirst, LineMillis, LineLong, LineNoText, LinePlain,
             LineIndented}
PlainVocab == {LinePlain, LineOneDigit, LineBlank}

\* the texts of exactly n lines of vocab, n >= 1
RECURSIVE LinesOfLength(_, _)
LinesOfLength(vocab, n) ==
    IF n = 1 THEN vocab
    ELSE {l \o <<"\n">> \o t : l \in vocab, t \in LinesOfLength(vocab, n - 1)}

LrcTextsUpTo(vocab, n) ==
    {<<>>} \cup UNION {LinesOfLength(vocab, k) : k \in 1..n}

\* the durations of a track, in seconds
Durations == {0, 10, 60, 61}

\* the (lrc_text, duration) pairs generate_lyrics_map is called with
MapInputs ==
    (LrcTextsUpTo(LrcVocab, MaxLrcLines) \X {NoDuration})
    \cup (LrcTextsUpTo(LrcVocab, 1) \X {60})
    \cup (LrcTextsUpTo(PlainVocab, MaxLrcLines) \X Durations)

\* generate_lyrics_map(text, d) up to parsed_lines = parse_lrc(lrc_text)
GenerateCall(text, d) ==
    /\ mpc = "idle"
    /\ lrc_text' = text
    /\ duration' = d
    /\ parsed_lines' = parse_lrc(text)
    /\ mpc' = "parsed"
    /\ UNCHANGED << lines, avg_line_dur, current_time, line_no, line_duration,
                    lyrics_map, map_result >>
    /\ UNCHANGED << scoreVars, norm_calls, restVars >>

\* a variant that takes every duration but None as given
TruthyUnlessNone(d) == d # NoDuration

\* the truth value of duration
Truthy(d) == d # NoDuration /\ d # 0

\* if not parsed_lines and duration
HeuristicChosen(parsed, d) == parsed = <<>> /\ Truthy(d)

\* return generate_heuristic_map(lrc_text, duration), up to its loop
CallHeuristic ==
    /\ mpc = "parsed"
    /\ HeuristicChosen(parsed_lines, duration)
    /\ lines' = StrippedLines(SplitLines(lrc_text))
    /\ avg_line_dur' = AvgLineDur(duration, Len(lines'))
    /\ current_time' = INTRO_OFFSET
    /\ lyrics_map' = <<>>
    /\ line_no' = 0
    /\ mpc' = "heuristic"
    /\ UNCHANGED << lrc_text, duration, parsed_lines, line_duration, map_result >>
    /\ UNCHANGED << scoreVars, norm_calls, restVars >>

\* if not parsed_lines: parsed_lines = parse_lrc(GENERIC_LYRICS)
StartTimestamped ==
    /\ mpc = "parsed"
    /\ ~HeuristicChosen(parsed_lines, duration)
    /\ parsed_lines' = IF parsed_lines = <<>> THEN parse_lrc(GENERIC_LYRICS)
                       ELSE parsed_lines
    /\ lyrics_map' = <<>>
    /\ line_no' = 0
    /\ mpc' = "timestamped"
    /\ UNCHANGED << lrc_text, duration, lines, avg_line_dur, current_time,
                    line_duration, map_result >>
    /\ UNCHANGED << scoreVars, norm_calls, restVars >>

\* the entry of the line that starts at start with the budget budget
TimedEntry(start, text, budget) ==
    LET words == StrSplit(text)
        w     == calculate_word_weights(words)
    IN  MapEntry(start, text,
                 WordsData(words, start, w.weights,
                           FDiv(budget, TotalOrOne(w.total))))

\* the body of the loop of generate_lyrics_map
TimestampedLine ==
    /\ mpc = "timestamped"
    /\ line_no < Len(parsed_lines)
    /\ line_no' = line_no + 1
    /\ IF StrSplit(parsed_lines[line_no'].text) = <<>>
       THEN UNCHANGED << line_duration, lyrics_map >>
       ELSE /\ line_duration' = LineDuration(TimeGap(parsed_lines, line_no'),
                                             parsed_lines[line_no'].text)
            /\ lyrics_map' = Append(lyrics_map,
                                    TimedEntry(parsed_lines[line_no'].time,
                                               parsed_lines[line_no'].text,
                                               line_duration'))
    /\ UNCHANGED << mpc, lrc_text, duration, parsed_lines, lines, avg_line_dur,
                    current_time, map_result >>
    /\ UNCHANGED << scoreVars, norm_calls, restVars >>

\* lyrics_map[0]['time'] if lyrics_map else 0
FirstTime(map) == IF map # <<>> THEN map[1].time ELSE FZero

\* the texts of a list of entries
TextsOf(entries) == [i \in 1..Len(entries) |-> entries[i].text]

\* the return of generate_lyrics_map
TimestampedReturn ==
    /\ mpc = "timestamped"
    /\ line_no = Len(parsed_lines)
    /\ map_result' = [text  |-> StrJoin(<<"\n">>, TextsOf(parsed_lines)),
                      map   |-> lyrics_map,
                      intro |-> IntroOffset(FirstTime(lyrics_map))]
    /\ mpc' = "returned_timestamped"
    /\ UNCHANGED << lrc_text, duration, parsed_lines, lines, avg_line_dur,
                    current_time, line_no, line_duration, lyrics_map >>
    /\ UNCHANGED << scoreVars, norm_calls, restVars >>

\* word_cursor after the last word of an entry that starts at start
CursorAfter(start, text, budget) ==
    LET w == calculate_word_weights(StrSplit(text))
    IN  WordCursor(start, w.weights, FDiv(budget, TotalOrOne(w.total)),
                   Len(w.weights))

\* the body of the loop of generate_heuristic_map
HeuristicLine ==
    /\ mpc = "heuristic"
    /\ line_no < Len(lines)
    /\ line_no' = line_no + 1
    /\ line_duration' = FSub(avg_line_dur, LINE_GAP)
    /\ lyrics_map' = Append(lyrics_map,
                            TimedEntry(current_time, lines[line_no'],
                                       line_duration'))
    /\ current_time' = FAdd(CursorAfter(current_time, lines[line_no'],
                                        line_duration'), LINE_GAP)
    /\ UNCHANGED << mpc, lrc_text, duration, parsed_lines, lines, avg_line_dur,
                    map_result >>
    /\ UNCHANGED << scoreVars, norm_calls, restVars >>

\* the return of generate_heuristic_map
HeuristicReturn ==
    /\ mpc = "heuristic"
    /\ line_no = Len(lines)
    /\ map_result' = [text  |-> StrJoin(<<"\n">>, lines),
                      map   |-> lyrics_map,
                      intro |-> INTRO_OFFSET]
    /\ mpc' = "returned_heuristic"
    /\ UNCHANGED << lrc_text, duration, parsed_lines, lines, avg_line_dur,
                    current_time, line_no, line_duration, lyrics_map >>
    /\ UNCHANGED << scoreVars, norm_calls, restVars >>

NextLyrics ==
    \/ mpc = "idle" /\ \E in \in MapInputs : GenerateCall(in[1], in[2])
    \/ CallHeuristic
    \/ StartTimestamped
    \/ TimestampedLine
    \/ TimestampedReturn
    \/ HeuristicLine
    \/ HeuristicReturn

SpecLyrics == InitLoaded /\ [][NextLyrics]_vars

(***************************************************************************)
(* The calls of generate_lyrics_map made while the catalog is set up.      *)
(***************************************************************************)
MaxFetchedLines == 2

\* what fetch_synced_lyrics returns: the synced lyrics of the best match,
\* whatever they hold; None, like the empty text, is <<>>
FetchedLyrics ==
    LrcTextsUpTo(LrcVocab, MaxFetchedLines)
        \cup LrcTextsUpTo(PlainVocab, MaxFetchedLines)

\* the durations of a track: those of a file, the fallback 180.0
SetupDurations == Durations \cup {180}

\* a variant that passes the duration with the fetched lyrics as well
LyricsArgsWithDuration(lrc, d) ==
    IF lrc # <<>> THEN << lrc, d >> ELSE << GENERIC_LYRICS, d >>

\* if lrc: generate_lyrics_map(lrc)
\* else: generate_lyrics_map(GENERIC_LYRICS, duration)
LyricsArgs(lrc, d) ==
    IF lrc # <<>> THEN << lrc, NoDuration >> ELSE << GENERIC_LYRICS, d >>

\* process_mixtape, the lyrics of one song of the mixtape
ProcessMixtapeSong(lrc, d) ==
    /\ mpc = "idle"
    /\ GenerateCall(LyricsArgs(lrc, d)[1], LyricsArgs(lrc, d)[2])

\* process_local_files, the lyrics of one audio file
ProcessLocalFile(lrc, d) ==
    /\ mpc = "idle"
    /\ GenerateCall(LyricsArgs(lrc, d)[1], LyricsArgs(lrc, d)[2])

\* main, the default song
MainDefaultSong ==
    /\ mpc = "idle"
    /\ GenerateCall(DEFAULT_SONG_lyrics, 120)

\* main, the lyrics of one downloaded track of an album
MainAlbumSong(lrc, d) ==
    /\ mpc = "idle"
    /\ GenerateCall(LyricsArgs(lrc, d)[1], LyricsArgs(lrc, d)[2])

\* One call of generate_lyrics_map from the catalog setup, followed to its
\* return.  The steps of generate_heuristic_map follow CallHeuristic alone.
NextSetup ==
    \/ \E lrc \in FetchedLyrics, d \in SetupDurations :
           ProcessMixtapeSong(lrc, d)
    \/ \E lrc \in FetchedLyrics, d \in SetupDurations :
           ProcessLocalFile(lrc, d)
    \/ MainDefaultSong
    \/ \E lrc \in FetchedLyrics, d \in SetupDurations : MainAlbumSong(lrc, d)
    \/ StartTimestamped
    \/ TimestampedLine
    \/ TimestampedReturn

SpecSetup == InitLoaded /\ [][NextSetup]_vars

(***************************************************************************)
(* main.py, the route /leaderboard: one step per statement that reads or   *)
(* writes leaderboard.json, for each handler of the server.                *)
(***************************************************************************)
MaxRequests == 3

\* data = data[:50]
LeaderboardLimit == 50

\* an entry with a name and a number as its score
Entry(n, sc) ==
    [keys |-> {"name", "score"}, name |-> n, score |-> sc, kind |-> "num"]

\* an entry with a name and a string as its score
TextScoreEntry ==
    [keys |-> {"name", "score"}, name |-> "a", score |-> 0, kind |-> "str"]

\* an entry with a name and the float NaN as its score: json.loads reads the
\* literal NaN
NaNEntry ==
    [keys |-> {"name", "score"}, name |-> "a", score |-> 0, kind |-> "nan"]

NamelessEntry == [keys |-> {"score"}, name |-> "", score |-> 2, kind |-> "num"]

ScorelessEntry == [keys |-> {"name"}, name |-> "a", score |-> 0, kind |-> "num"]

\* what request.json holds
PostedEntries ==
    {Entry(n, sc) : n \in {"a", "b"}, sc \in {1, 2, 3}}
        \cup {TextScoreEntry, NaNEntry, NamelessEntry, ScorelessEntry, NoEntry}

Requests ==
    {[method |-> "GET", entry |-> NoEntry]}
        \cup {[method |-> "POST", entry |-> e] : e \in PostedEntries}

\* a leaderboard of 50 entries as the server leaves it
FullBoard ==
    [i \in 1..LeaderboardLimit |->
        Entry("seed", IF i <= 2 THEN 3 ELSE IF i < LeaderboardLimit THEN 2 ELSE 1)]

\* a leaderboard written by hand: 52 entries in no order
HandMadeBoard ==
    [i \in 1..(LeaderboardLimit + 2) |-> Entry("hand", 1 + (i % 3))]

ListFile(list) == [state |-> "list", list |-> list]

\* leaderboard.json opened for writing and not written whole, or holding
\* the bytes of two writers: json.load raises
Unparsable == [state |-> "unparsable", list |-> <<>>]

\* leaderboard.json when the server starts
LeaderboardFiles == {NoFile, ListFile(FullBoard), ListFile(HandMadeBoard)}

InitServing ==
    /\ CoreInit
    /\ jellyfish = "installed"
    /\ board_file \in LeaderboardFiles
    /\ first_file = board_file

\* load_json(LEADERBOARD_PATH, default=[]): the default when the file does
\* not exist or json.load raises
load_json(file) == IF file.state = "list" THEN file.list ELSE <<>>

\* not (not entry or 'name' not in entry or 'score' not in entry)
ValidEntry(e) == "name" \in e.keys /\ "score" \in e.keys

\* whether x['score'] < y['score'] is defined for all the entries: a string
\* compares with no number
Comparable(seq) ==
    Cardinality({seq[i].kind = "str" : i \in 1..Len(seq)}) <= 1

\* x['score'] < y['score']; every comparison with NaN is False
ScoreLess(x, y) == x.kind # "nan" /\ y.kind # "nan" /\ x.score < y.score

Reverse(seq) == [i \in 1..Len(seq) |-> seq[Len(seq) + 1 - i]]

\* list.sort of a list shorter than 64, its first part: the length of the
\* run the list starts with, strictly descending or else non-descending
CountRun(a) ==
    IF Len(a) < 2 THEN Len(a)
    ELSE LET descending == ScoreLess(a[2], a[1])
             breaks == {i \in 3..Len(a) :
                           ScoreLess(a[i], a[i - 1]) # descending}
         IN  IF breaks = {} THEN Len(a)
             ELSE (CHOOSE i \in breaks : \A k \in breaks : i <= k) - 1

\* a descending run is reversed in place
FirstRun(a) ==
    IF Len(a) >= 2 /\ ScoreLess(a[2], a[1])
    THEN Reverse(SubSeq(a, 1, CountRun(a)))
             \o SubSeq(a, CountRun(a) + 1, Len(a))
    ELSE a

\* the binary search of binarysort: how many of a[1..r] stay left of pivot
RECURSIVE Slot(_, _, _, _)
Slot(a, pivot, l, r) ==
    IF l >= r THEN l
    ELSE LET p == l + ((r - l) \div 2)
         IN  IF ScoreLess(pivot, a[p + 1]) THEN Slot(a, pivot, l, p)
             ELSE Slot(a, pivot, p + 1, r)

\* binarysort: a[i], a[i+1], ... are put into the sorted part before them
RECURSIVE BinarySort(_, _)
BinarySort(a, i) ==
    IF i > Len(a) THEN a
    ELSE LET l == Slot(a, a[i], 0, i - 1)
         IN  BinarySort(SubSeq(a, 1, l) \o << a[i] >> \o SubSeq(a, l + 1, i - 1)
                            \o SubSeq(a, i + 1, Len(a)),
                        i + 1)

\* data.sort(key=lambda x: x['score'], reverse=True): the list is reversed,
\* sorted with < alone and reversed again
SortDescending(seq) ==
    Reverse(BinarySort(FirstRun(Reverse(seq)), CountRun(Reverse(seq)) + 1))

\* data[:50]
Truncated(seq) ==
    IF Len(seq) <= LeaderboardLimit THEN seq
    ELSE SubSeq(seq, 1, LeaderboardLimit)

\* a request reaches a handler: data = load_json(LEADERBOARD_PATH, default=[])
Receive(h, req) ==
    /\ hpc[h] \in {"idle", "done"}
    /\ requests_made < MaxRequests
    /\ request' = [request EXCEPT ![h] = req]
    /\ data' = [data EXCEPT ![h] = load_json(board_file)]
    /\ status' = [status EXCEPT ![h] = 0]
    /\ hpc' = [hpc EXCEPT ![h] = "loaded"]
    /\ requests_made' = requests_made + 1
    /\ UNCHANGED << board_file, first_file, overlap, posts_saved >>
    /\ UNCHANGED << scoreVars, norm_calls, mapVars, weightVars, makerVars >>

\* the requests come one after the other
SerialReceive(req) ==
    /\ \A h \in Handlers : hpc[h] \in {"idle", "done"}
    /\ Receive(1, req)

\* each handler takes one request, whatever the others do
ConcurrentReceive(h, req) ==
    /\ hpc[h] = "idle"
    /\ Receive(h, req)

\* return jsonify(data)
GetReturn(h) ==
    /\ hpc[h] = "loaded"
    /\ request[h].method = "GET"
    /\ status' = [status EXCEPT ![h] = 200]
    /\ hpc' = [hpc EXCEPT ![h] = "done"]
    /\ UNCHANGED << board_file, first_file, request, data, overlap,
                    requests_made, posts_saved >>
    /\ UNCHANGED << scoreVars, norm_calls, mapVars, weightVars, makerVars >>

\* return jsonify({'error': 'Invalid data'}), 400
PostInvalid(h) ==
    /\ hpc[h] = "loaded"
    /\ request[h].method = "POST"
    /\ ~ ValidEntry(request[h].entry)
    /\ status' = [status EXCEPT ![h] = 400]
    /\ hpc' = [hpc EXCEPT ![h] = "done"]
    /\ UNCHANGED << board_file, first_file, request, data, overlap,
                    requests_made, posts_saved >>
    /\ UNCHANGED << scoreVars, norm_calls, mapVars, weightVars, makerVars >>

\* data.append(entry); data.sort(...); data = data[:50].  The sort raises
\* TypeError when two scores cannot be compared, and the server answers 500.
PostSort(h) ==
    /\ hpc[h] = "loaded"
    /\ request[h].method = "POST"
    /\ ValidEntry(request[h].entry)
    /\ LET appended == Append(data[h], request[h].entry)
       IN  IF Comparable(appended)
           THEN /\ data' = [data EXCEPT
                               ![h] = Truncated(SortDescending(appended))]
                /\ hpc' = [hpc EXCEPT ![h] = "sorted"]
                /\ UNCHANGED status
           ELSE /\ data' = [data EXCEPT ![h] = appended]
                /\ status' = [status EXCEPT ![h] = 500]
                /\ hpc' = [hpc EXCEPT ![h] = "done"]
    /\ UNCHANGED << board_file, first_file, request, overlap, requests_made,
                    posts_saved >>
    /\ UNCHANGED << scoreVars, norm_calls, mapVars, weightVars, makerVars >>

\* save_json: open(path, 'w') empties the file
SaveOpen(h) ==
    /\ hpc[h] = "sorted"
    /\ board_file' = Unparsable
    /\ overlap' = [g \in Handlers |-> FALSE]
    /\ hpc' = [hpc EXCEPT ![h] = "open"]
    /\ UNCHANGED << first_file, request, data, status, requests_made,
                    posts_saved >>
    /\ UNCHANGED << scoreVars, norm_calls, mapVars, weightVars, makerVars >>

\* save_json: json.dump and the end of the with block write the list from
\* the start of the file; over the longer bytes of another writer they
\* leave a file that does not parse.  return jsonify({'status': 'saved', ...})
SaveClose(h, whole) ==
    /\ hpc[h] = "open"
    /\ whole \/ overlap[h]
    /\ board_file' = IF whole THEN ListFile(data[h]) ELSE Unparsable
    /\ overlap' = [g \in Handlers |-> g # h /\ hpc[g] = "open"]
    /\ status' = [status EXCEPT ![h] = 200]
    /\ hpc' = [hpc EXCEPT ![h] = "done"]
    /\ posts_saved' = posts_saved + 1
    /\ UNCHANGED << first_file, request, data, requests_made >>
    /\ UNCHANGED << scoreVars, norm_calls, mapVars, weightVars, makerVars >>

\* the rest of a request, once received
HandlerStep(h) ==
    \/ GetReturn(h)
    \/ PostInvalid(h)
    \/ PostSort(h)
    \/ SaveOpen(h)
    \/ \E whole \in BOOLEAN : SaveClose(h, whole)

NextBoard ==
    \/ \E req \in Requests : SerialReceive(req)
    \/ \E h \in Handlers : HandlerStep(h)

SpecBoard == InitServing /\ [][NextBoard]_vars

NextConcurrent ==
    \/ \E h \in Handlers, req \in Requests : ConcurrentReceive(h, req)
    \/ \E h \in Handlers : HandlerStep(h)

SpecConcurrent == InitServing /\ [][NextConcurrent]_vars

(***************************************************************************)
(* calculate_word_weights, one step per word.                              *)
(***************************************************************************)
\* how many words a list of words has
MaxWeightWords == 3

\* the lengths of the words of str.split(), none of which is empty
WordLengths == {1, 2, 3, 4, 5, 7, 8, 9}

\* a word of n characters
WordOfLength(n) == [i \in 1..n |-> "a"]

\* the lists of at most n words
WordListsUpTo(n) ==
    UNION {[1..k -> {WordOfLength(l) : l \in WordLengths}] : k \in 0..n}

\* calculate_word_weights(ws) up to the loop
WeightsCall(ws) ==
    /\ wpc = "idle"
    /\ the_words' = ws
    /\ the_weights' = <<>>
    /\ total_weight' = FZero
    /\ wpc' = "loop"
    /\ UNCHANGED weights_result
    /\ UNCHANGED << scoreVars, norm_calls, mapVars, makerVars, boardVars >>

\* the body of the loop: weights.append(weight); total_weight += weight
WeightsWord ==
    /\ wpc = "loop"
    /\ Len(the_weights) < Len(the_words)
    /\ the_weights' = Append(the_weights,
                             WordWeight(the_words[Len(the_weights) + 1]))
    /\ total_weight' = FAdd(total_weight,
                            WordWeight(the_words[Len(the_weights) + 1]))
    /\ UNCHANGED << wpc, the_words, weights_result >>
    /\ UNCHANGED << scoreVars, norm_calls, mapVars, makerVars, boardVars >>

\* return weights, total_weight
WeightsReturn ==
    /\ wpc = "loop"
    /\ Len(the_weights) = Len(the_words)
    /\ weights_result' = [weights |-> the_weights, total |-> total_weight]
    /\ wpc' = "returned"
    /\ UNCHANGED << the_words, the_weights, total_weight >>
    /\ UNCHANGED << scoreVars, norm_calls, mapVars, makerVars, boardVars >>

NextWeights ==
    \/ wpc = "idle" /\ \E ws \in WordListsUpTo(MaxWeightWords) : WeightsCall(ws)
    \/ WeightsWord
    \/ WeightsReturn

SpecWeights == InitLoaded /\ [][NextWeights]_vars

(***************************************************************************)
(* karaoke_maker.py: main, KaraokeMaker and its cleanup.  The separator of *)
(* the audio_separator package writes the output of a file while separate  *)
(* runs; a file is separated in one phase, also in process_reduced_vocals. *)
(* create_temp_dir is never called, so temp_dirs stays empty.              *)
(***************************************************************************)
\* lo <= r and r <= hi, of Python floats
ArgLe(lo, r) == ~ lo.nan /\ ~ r.nan /\ ~ FLt(r.val, lo.val)

\* lo < r
ArgLt(lo, r) == ~ lo.nan /\ ~ r.nan /\ FLt(lo.val, r.val)

\* 0.0 <= args.reduction <= 1.0
InRange(r) == ArgLe(ArgFloat(FZero), r) /\ ArgLe(r, ArgFloat(FFromNat(1)))

\* a variant that takes 0.9 for a reduced level
ModeOfAbove09(r) ==
    IF ArgLt(ArgFloat(FLit(9, 10)), r) THEN "instrumental"
    ELSE IF ArgLt(ArgFloat(FZero), r) THEN "reduced"
    ELSE "copy"

\* if args.reduction >= 0.9: ... elif args.reduction > 0.0: ... else: ...
ModeOf(r) ==
    IF ArgLe(ArgFloat(FLit(9, 10)), r) THEN "instrumental"
    ELSE IF ArgLt(ArgFloat(FZero), r) THEN "reduced"
    ELSE "copy"

\* the values of -r
Reductions ==
    {ArgFloat(FNeg(FLit(1, 10))), ArgFloat(FZero), ArgFloat(FLit(3, 10)),
     ArgFloat(FLit(89, 100)), ArgFloat(FLit(9, 10)), ArgFloat(FFromNat(1)),
     ArgFloat(FLit(11, 10)), ArgNaN}

\* the kinds of -i and how many audio files it holds
PathInputs ==
    {<< "missing", 0 >>, << "file", 1 >>} \cup {<< "dir", k >> : k \in 0..MaxFiles}

\* the mode main has called
ModeRunning == modes_run[Len(modes_run)]

\* what cleanup() leaves of the outputs: it unlinks current_output_file
CleanupDisk(d, cof) ==
    IF cof # 0 /\ d[cof] # "none" THEN [d EXCEPT ![cof] = "none"] ELSE d

\* a run of cleanup() and what it saw
CleanupSeen(cause, separating, cof) ==
    [cause |-> cause, separating |-> separating, cof |-> cof]

\* the command line, parsed by parser.parse_args()
Invoke(r, pkg, path) ==
    /\ kpc = "idle"
    /\ reduction' = r
    /\ separator_pkg' = pkg
    /\ input_path' = path[1]
    /\ audio_files' = [i \in 1..path[2] |-> i]
    /\ kpc' = "validate"
    /\ UNCHANGED << file_no, current_output_file, disk, modes_run, cleanups,
                    exit_status >>
    /\ UNCHANGED << scoreVars, norm_calls, mapVars, weightVars, boardVars >>

\* if not 0.0 <= args.reduction <= 1.0: sys.exit(1)
Validate ==
    /\ kpc = "validate"
    /\ IF InRange(reduction)
       THEN kpc' = "construct" /\ UNCHANGED exit_status
       ELSE kpc' = "exited" /\ exit_status' = 1
    /\ UNCHANGED << reduction, separator_pkg, input_path, audio_files,
                    file_no, current_output_file, disk, modes_run, cleanups >>
    /\ UNCHANGED << scoreVars, norm_calls, mapVars, weightVars, boardVars >>

\* KaraokeMaker(vocal_reduction=args.reduction): the handlers are set and
\* check_installation exits with 1 when the import fails
Construct ==
    /\ kpc = "construct"
    /\ current_output_file' = 0
    /\ IF separator_pkg = "installed"
       THEN kpc' = "dispatch" /\ UNCHANGED exit_status
       ELSE kpc' = "exited" /\ exit_status' = 1
    /\ UNCHANGED << reduction, separator_pkg, input_path, audio_files,
                    file_no, disk, modes_run, cleanups >>
    /\ UNCHANGED << scoreVars, norm_calls, mapVars, weightVars, boardVars >>

\* the call of process_instrumental, process_reduced_vocals or
\* copy_original_audio, up to the loop over the files
Dispatch ==
    /\ kpc = "dispatch"
    /\ modes_run' = Append(modes_run, ModeOf(reduction))
    /\ file_no' = 0
    /\ kpc' = "loop"
    /\ UNCHANGED << reduction, separator_pkg, input_path, audio_files,
                    current_output_file, disk, cleanups, exit_status >>
    /\ UNCHANGED << scoreVars, norm_calls, mapVars, weightVars, boardVars >>

\* _process_single_instrumental or _process_single_reduced_vocals, up to
\* self.separator.separate(str(input_file))
BeginFile ==
    /\ kpc = "loop"
    /\ ModeRunning \in {"instrumental", "reduced"}
    /\ file_no < Len(audio_files)
    /\ file_no' = file_no + 1
    /\ current_output_file' = IF ModeRunning = "instrumental" THEN 0
                              ELSE current_output_file
    /\ disk' = [disk EXCEPT ![audio_files[file_no']] = "partial"]
    /\ kpc' = "separating"
    /\ UNCHANGED << reduction, separator_pkg, input_path, audio_files,
                    modes_run, cleanups, exit_status >>
    /\ UNCHANGED << scoreVars, norm_calls, mapVars, weightVars, boardVars >>

\* separate returns; found: a name of output_files holds "Instrumental"
FinishSeparate(found) ==
    /\ kpc = "separating"
    /\ disk' = [disk EXCEPT ![audio_files[file_no]] = "complete"]
    /\ IF ModeRunning = "instrumental" /\ found
       THEN /\ current_output_file' = audio_files[file_no]
            /\ kpc' = "found"
       ELSE /\ current_output_file' = 0
            /\ kpc' = "loop"
    /\ UNCHANGED << reduction, separator_pkg, input_path, audio_files,
                    file_no, modes_run, cleanups, exit_status >>
    /\ UNCHANGED << scoreVars, norm_calls, mapVars, weightVars, boardVars >>

\* return, through finally: self.current_output_file = None
ReturnFound ==
    /\ kpc = "found"
    /\ current_output_file' = 0
    /\ kpc' = "loop"
    /\ UNCHANGED << reduction, separator_pkg, input_path, audio_files,
                    file_no, disk, modes_run, cleanups, exit_status >>
    /\ UNCHANGED << scoreVars, norm_calls, mapVars, weightVars, boardVars >>

\* _copy_single_file
CopyFile ==
    /\ kpc = "loop"
    /\ ModeRunning = "copy"
    /\ file_no < Len(audio_files)
    /\ file_no' = file_no + 1
    /\ disk' = [disk EXCEPT ![audio_files[file_no']] = "complete"]
    /\ UNCHANGED << kpc, reduction, separator_pkg, input_path, audio_files,
                    current_output_file, modes_run, cleanups, exit_status >>
    /\ UNCHANGED << scoreVars, norm_calls, mapVars, weightVars, boardVars >>

\* separate raises an Exception: sys.exit(1), through finally:
\* self.current_output_file = None and the finally of main: cleanup()
SeparateError ==
    /\ kpc = "separating"
    /\ current_output_file' = 0
    /\ cleanups' = Append(cleanups, CleanupSeen("finally", 0, 0))
    /\ exit_status' = 1
    /\ kpc' = "exited"
    /\ UNCHANGED << reduction, separator_pkg, input_path, audio_files,
                    file_no, disk, modes_run >>
    /\ UNCHANGED << scoreVars, norm_calls, mapVars, weightVars, boardVars >>

\* separate raises KeyboardInterrupt: it is raised again through finally:
\* self.current_output_file = None, main runs cleanup() and sys.exit(130),
\* and the finally of main runs cleanup() again
SeparateInterrupted ==
    /\ kpc = "separating"
    /\ current_output_file' = 0
    /\ disk' = CleanupDisk(disk, 0)
    /\ cleanups' = cleanups \o << CleanupSeen("KeyboardInterrupt", file_no, 0),
                                  CleanupSeen("finally", 0, 0) >>
    /\ exit_status' = 130
    /\ kpc' = "exited"
    /\ UNCHANGED << reduction, separator_pkg, input_path, audio_files,
                    file_no, modes_run >>
    /\ UNCHANGED << scoreVars, norm_calls, mapVars, weightVars, boardVars >>

\* SIGINT or SIGTERM: _signal_handler runs cleanup() and sys.exit(0); the
\* SystemExit passes finally: self.current_output_file = None and the
\* finally of main: cleanup()
Signal ==
    /\ kpc \in {"dispatch", "loop", "separating", "found"}
    /\ disk' = CleanupDisk(disk, current_output_file)
    /\ cleanups' = cleanups \o
           << CleanupSeen("signal",
                          IF kpc = "separating" THEN file_no ELSE 0,
                          current_output_file),
              CleanupSeen("finally", 0, 0) >>
    /\ current_output_file' = 0
    /\ exit_status' = 0
    /\ kpc' = "exited"
    /\ UNCHANGED << reduction, separator_pkg, input_path, audio_files,
                    file_no, modes_run >>
    /\ UNCHANGED << scoreVars, norm_calls, mapVars, weightVars, boardVars >>

\* the loop over the files ends, and the finally of main runs cleanup()
LoopDone ==
    /\ kpc = "loop"
    /\ file_no = Len(audio_files)
    /\ disk' = CleanupDisk(disk, current_output_file)
    /\ cleanups' = Append(cleanups,
                          CleanupSeen("finally", 0, current_output_file))
    /\ exit_status' = 0
    /\ kpc' = "exited"
    /\ UNCHANGED << reduction, separator_pkg, input_path, audio_files,
                    file_no, current_output_file, modes_run >>
    /\ UNCHANGED << scoreVars, norm_calls, mapVars, weightVars, boardVars >>

NextMaker ==
    \/ /\ kpc = "idle"
       /\ \E r \in Reductions, pkg \in {"installed", "missing"},
             path \in PathInputs : Invoke(r, pkg, path)
    \/ Validate
    \/ Construct
    \/ Dispatch
    \/ BeginFile
    \/ \E found \in BOOLEAN : FinishSeparate(found)
    \/ ReturnFound
    \/ CopyFile
    \/ SeparateError
    \/ SeparateInterrupted
    \/ Signal
    \/ LoopDone

SpecMaker == InitLoaded /\ [][NextMaker]_vars

(***************************************************************************)
(* Properties of calculate_score_advanced.                                 *)
(***************************************************************************)
\* a call has returned
Returned == pc = "done"

\* the score before the bonus logic, from the accumulated credit
RawOfCall == RawScore(weighted_score, total_possible)

\* C1: every call returns an integer score s with 0 <= s <= 100; on a
\* non-empty target s is the raw score or the raw score plus one bonus of 10,
\* so the bonus is added at most once and never lifts the score above 100.
ScoreInRangeBonusOnce ==
    Returned =>
        /\ result.score \in 0..100
        /\ Len(target_words) > 0 =>
               \/ result.score = RawOfCall
               \/ result.score = RawOfCall + 10 /\ RawOfCall < 50

\* a call that returned its raw score plus the bonus
BonusApplied ==
    /\ Returned
    /\ Len(target_words) > 0
    /\ result.score = RawOfCall + 10

\* C2: a call whose two normalized token sequences are identical and
\* non-empty returns the score 100.
IdenticalScores100 ==
    (Returned /\ user_words = target_words /\ Len(target_words) > 0)
        => result.score = 100

\* a call with identical normalized sequences of three tokens or more
IdenticalReturned ==
    /\ Returned
    /\ user_words = target_words
    /\ Len(target_words) >= 3

\* C3: a call whose target normalizes to at least one token and whose
\* performed text normalizes to no token returns the score 0: no credit was
\* awarded and the bonus was not applied.
EmptyPerformedScoresZero ==
    (Returned /\ Len(user_words) = 0 /\ Len(target_words) >= 1)
        => /\ result.score = 0
           /\ weighted_score = DZero
           /\ final_score = 0

\* a call with a performed text of punctuation only and a non-empty target
EmptyPerformedReturned ==
    /\ Returned
    /\ user_text # <<>>
    /\ Len(user_words) = 0
    /\ Len(target_words) >= 1

\* C4: a call whose target normalizes to no token returns the score 0 with
\* the performed text as it was passed; no alignment was computed, no span
\* was rendered and no bonus was applied.
EmptyTargetReturnsText ==
    (Returned /\ Len(target_words) = 0)
        => /\ result = [score |-> 0, annotated |-> user_text]
           /\ opcodes = <<>>
           /\ html_output = <<>>
           /\ final_score = 0

\* a call with a target of punctuation only and a performed text that
\* normalization changes
EmptyTargetReturned ==
    /\ Returned
    /\ official_text # <<>>
    /\ Len(target_words) = 0
    /\ Len(user_words) > 0
    /\ user_text # StrJoin(<<" ">>, user_words)

\* the credit the spans stand for, in tenths: 1.0 for a green span, 0.8 for
\* a yellow one
CreditTenths(spans) ==
    10 * Cardinality({k \in 1..Len(spans) : spans[k].class = ClassGreen})
    + 8 * Cardinality({k \in 1..Len(spans) : spans[k].class = ClassYellow})

\* floor(100 * weightedScore / |target|) in exact arithmetic
ExactRaw == (10 * CreditTenths(html_output)) \div Len(target_words)

\* 0.8 < |performed| / |target| < 1.2 in exact arithmetic
ExactRatioInside ==
    /\ 4 * Len(target_words) < 5 * Len(user_words)
    /\ 5 * Len(user_words) < 6 * Len(target_words)

\* C5: with raw = floor(100 * weightedScore / |target|) and |target| >= 1,
\* the returned score is min(100, raw + 10) exactly when raw < 50 and the
\* ratio of the token counts is strictly between 0.8 and 1.2, and
\* min(100, raw) otherwise.
DegenerateImprovementRule ==
    (Returned /\ Len(target_words) >= 1)
        => result.score =
               IF ExactRaw < 50 /\ ExactRatioInside
               THEN DMin(100, ExactRaw + 10)
               ELSE DMin(100, ExactRaw)

\* the loop takes the step of the opcode it is at
OpcodeStep(tags) ==
    /\ pc = "loop"
    /\ op_done < Len(opcodes)
    /\ CurrentOp[1] \in tags
    /\ op_done' = op_done + 1

\* the two segments of the opcode the loop is at
UserSegment == Slice(user_words, CurrentOp[2], CurrentOp[3])
TargetSegment == Slice(target_words, CurrentOp[4], CurrentOp[5])

\* how many tokens of the two segments are paired by position
PairCount == DMin(Len(UserSegment), Len(TargetSegment))

\* the step keeps the spans rendered so far
KeepsRendered ==
    /\ Len(html_output') >= Len(html_output)
    /\ SubSeq(html_output', 1, Len(html_output)) = html_output

\* the spans the step renders
Appended == SubSeq(html_output', Len(html_output) + 1, Len(html_output'))

\* score after the credit the spans stand for, from the k-th one on
RECURSIVE CreditOfSpans(_, _, _)
CreditOfSpans(score, spans, k) ==
    IF k > Len(spans) THEN score
    ELSE CreditOfSpans(IF spans[k].class = ClassGreen THEN DAdd(score, Float1)
                       ELSE IF spans[k].class = ClassYellow
                       THEN DAdd(score, Float08)
                       ELSE score,
                       spans, k + 1)

\* the class of a pair of similarity sim: near-exact above 0.85, partial
\* above 0.70 and up to 0.85, miss up to 0.70
ClassOfSimilarity(sim) ==
    IF DLt(DLit(85, 100), sim) THEN ClassGreen
    ELSE IF DLt(DLit(70, 100), sim) THEN ClassYellow
    ELSE ClassStrike

\* C6: a replace step renders each positionally paired token with the class
\* its similarity alone decides (near-exact when sim > 0.85, partial when
\* 0.70 < sim <= 0.85, miss when sim <= 0.70) and adds 1.0 for each
\* near-exact pair, 0.8 for each partial pair and nothing for a miss.
ReplacePairsByThreshold ==
    [][OpcodeStep({"replace"}) =>
          /\ KeepsRendered
          /\ Len(Appended) >= PairCount
          /\ \A k \in 1..PairCount :
                 /\ Appended[k].text = UserSegment[k]
                 /\ Appended[k].class =
                        ClassOfSimilarity(
                            jaro_winkler_similarity(UserSegment[k],
                                                    TargetSegment[k]))
          /\ weighted_score' = CreditOfSpans(weighted_score, Appended, 1)]_vars

\* a pair of similarity exactly 0.85 was rendered partial
PartialAtThreshold ==
    \E k \in 1..Len(html_output) :
        /\ html_output[k].class = ClassYellow
        /\ html_output[k].title = 85

\* C7: a replace step on segments of different lengths renders
\* every token of the tail of the longer segment, whichever side it is on,
\* as an extra span, and the tail earns no credit.
LongerTailRenderedExtra ==
    [][(OpcodeStep({"replace"}) /\ Len(UserSegment) # Len(TargetSegment)) =>
          LET longer == IF Len(UserSegment) > Len(TargetSegment)
                        THEN UserSegment ELSE TargetSegment
          IN  /\ KeepsRendered
              /\ Len(Appended) = Len(longer)
              /\ \A k \in (PairCount + 1)..Len(longer) :
                     Appended[k] = Span(ClassExtra, -1, longer[k])
              /\ weighted_score' =
                     CreditOfSpans(weighted_score,
                                   SubSeq(Appended, 1, PairCount), 1)]_vars

\* C8: an insert step and a delete step leave weighted_score unchanged; an
\* insert step renders one missing-lyric marker holding its target tokens,
\* and a delete step renders one extra span for each of its tokens.
InsertDeleteNoCredit ==
    [][OpcodeStep({"insert", "delete"}) =>
          /\ KeepsRendered
          /\ weighted_score' = weighted_score
          /\ CurrentOp[1] = "insert" =>
                 Appended =
                     << Span(ClassMissing, -1,
                             <<"[">> \o StrJoin(<<" ">>, TargetSegment)
                                 \o <<"]">>) >>
          /\ CurrentOp[1] = "delete" =>
                 /\ Len(Appended) = Len(UserSegment)
                 /\ \A k \in 1..Len(UserSegment) :
                        Appended[k] = Span(ClassExtra, -1, UserSegment[k])]_vars

\* one call has processed an insert run of two tokens or more and a delete
\* run
InsertAndDeleteProcessed ==
    /\ pc = "loop"
    /\ \E a, b \in 1..op_done :
           /\ opcodes[a][1] = "insert"
           /\ opcodes[a][5] - opcodes[a][4] >= 2
           /\ opcodes[b][1] = "delete"

\* C9: without the similarity function scoring still completes, so the
\* program never stops at the failed import of the module that provides it.
SimilarityUnavailableStillScores ==
    jellyfish = "missing" => pc # "ImportError"

\* C10: a call never raises: the loop knows every opcode it meets, no
\* division by zero happens, and what is returned is a score from 0 up with
\* the annotated text.
NeverRaises ==
    /\ pc # "ZeroDivisionError"
    /\ (pc = "loop" /\ op_done < Len(opcodes)) =>
           CurrentOp[1] \in {"equal", "replace", "insert", "delete"}
    /\ Returned =>
           /\ result # NoResult
           /\ result.score \in Nat
           /\ DOMAIN result = {"score", "annotated"}
           /\ Len(target_words) > 0 => result.annotated = HtmlJoin(html_output)

\* a call on two texts of punctuation only has returned
UnparseableReturned ==
    /\ Returned
    /\ user_text # <<>>
    /\ official_text # <<>>
    /\ user_words = <<>>
    /\ target_words = <<>>

FlatTokens ==
    \A i \in 1..Len(norm_calls) :
        \A k \in 1..Len(norm_calls[i].tokens) :
            \A c \in 1..Len(norm_calls[i].tokens[k]) :
                ~IsSpaceChar(norm_calls[i].tokens[k][c])

(***************************************************************************)
(* Properties of the lyric timing.                                         *)
(***************************************************************************)
\* the shape [MM:SS.ff] of a tag with n fractional digits: "d" for a digit
TagShape(n) ==
    <<"[", "d", "d", ":", "d", "d", ".">> \o [i \in 1..n |-> "d"] \o <<"]">>

\* line starts with a tag of n fractional digits
StartsWithTag(line, n) ==
    /\ Len(line) >= Len(TagShape(n))
    /\ \A i \in 1..Len(TagShape(n)) :
           IF TagShape(n)[i] = "d" THEN line[i] \in DigitChars
           ELSE line[i] = TagShape(n)[i]

\* what follows the tag that opens the line, stripped; <<>> without a tag
TextAfterTag(line) ==
    IF StartsWithTag(line, 2) THEN StrStrip(SubSeq(line, 11, Len(line)))
    ELSE IF StartsWithTag(line, 3) THEN StrStrip(SubSeq(line, 12, Len(line)))
    ELSE <<>>

\* the numbers of the lines of the lyrics text that parse_lrc is to keep
KeptLines ==
    {k \in 1..Len(SplitLines(lrc_text)) :
        TextAfterTag(SplitLines(lrc_text)[k]) # <<>>}

\* C13: parse_lrc returns exactly the lines that start with a [MM:SS.ff]
\* tag of two or three fractional digits and have text after it, in file
\* order and not sorted by time; other lines contribute nothing, and a text
\* without such a line gives the empty sequence.
ParseKeepsTaggedLinesInOrder ==
    mpc = "parsed" =>
        /\ Len(parsed_lines) = Cardinality(KeptLines)
        /\ \A i \in 1..Len(parsed_lines) :
               parsed_lines[i].text =
                   TextAfterTag(SplitLines(lrc_text)[KthSmallest(KeptLines, i)])

\* a text was parsed that has lines to keep and lines to drop, and whose
\* kept lines are not in the order of their times
ParsedOutOfTimeOrder ==
    /\ mpc = "parsed"
    /\ Len(parsed_lines) = 2
    /\ Len(SplitLines(lrc_text)) = 3
    /\ FLt(parsed_lines[2].time, parsed_lines[1].time)

\* generate_lyrics_map has chosen its mode
ModeChosen == mpc \notin {"idle", "parsed"}

InHeuristicMode == mpc \in {"heuristic", "returned_heuristic"}

InTimestampedMode == mpc \in {"timestamped", "returned_timestamped"}

\* C14: the mode depends on the parser's result alone, for every duration:
\* heuristic mode exactly when parse_lrc found no line in the given text,
\* timestamped mode over the lines of the given text otherwise.
ModeByParserAlone ==
    ModeChosen =>
        /\ InHeuristicMode <=> parse_lrc(lrc_text) = <<>>
        /\ InTimestampedMode => parsed_lines = parse_lrc(lrc_text)

\* C14, amended: heuristic mode exactly when parse_lrc found no line in the
\* given text and a duration other than None and 0 was given; timestamped
\* mode otherwise, over the lines of the given text when it has any and
\* over the lines of GENERIC_LYRICS when it has none.
ModeByParserAndDuration ==
    ModeChosen =>
        /\ InHeuristicMode <=>
               (parse_lrc(lrc_text) = <<>> /\ duration \notin {NoDuration, 0})
        /\ InTimestampedMode =>
               parsed_lines = IF parse_lrc(lrc_text) # <<>>
                              THEN parse_lrc(lrc_text)
                              ELSE parse_lrc(GENERIC_LYRICS)

\* a text without a tagged line and the duration 0 were given, and the
\* lines of GENERIC_LYRICS were timed
GenericLyricsTimed ==
    /\ mpc = "returned_timestamped"
    /\ lrc_text # <<>>
    /\ parse_lrc(lrc_text) = <<>>
    /\ duration = 0
    /\ Len(map_result.map) = 5

\* the loop of generate_lyrics_map takes the step of its next line
TimestampedStep == mpc = "timestamped" /\ line_no' = line_no + 1

\* C15: in timestamped mode the budget of a line is
\* min(timeToNextLine, 0.15 * characterCount + 1.0), timeToNextLine being
\* the time of the next entry of the list minus the line's own time, and
\* 4.0 for the last line.
BudgetOfLine ==
    [][TimestampedStep =>
          LET text    == parsed_lines[line_no'].text
              toNext  == IF line_no' < Len(parsed_lines)
                         THEN FSub(parsed_lines[line_no' + 1].time,
                                   parsed_lines[line_no'].time)
                         ELSE FFromNat(4)
              reading == FAdd(FMul(FLit(15, 100), FFromNat(Len(text))),
                              FFromNat(1))
          IN  line_duration' = IF FLt(reading, toNext) THEN reading
                               ELSE toNext]_vars

\* a line that is not the last got the time to the next line, more than
\* zero, as its budget
BudgetIsTimeToNext ==
    /\ mpc = "timestamped"
    /\ line_no >= 1
    /\ line_no < Len(parsed_lines)
    /\ line_duration = FSub(parsed_lines[line_no + 1].time,
                            parsed_lines[line_no].time)
    /\ FLt(FZero, line_duration)

\* C16: in every line of every lyrics map, of either mode, the first word
\* starts at the line's stored time and each word ends where the next one
\* starts.
WordsContiguous ==
    \A k \in 1..Len(lyrics_map) :
        /\ lyrics_map[k].words # <<>>
        /\ lyrics_map[k].words[1].start = lyrics_map[k].time
        /\ \A i \in 1..(Len(lyrics_map[k].words) - 1) :
               lyrics_map[k].words[i].end = lyrics_map[k].words[i + 1].start

\* a heuristic map of two lines or more, one of them with two words of
\* different starts, was returned
HeuristicMapOfWords ==
    /\ mpc = "returned_heuristic"
    /\ Len(lyrics_map) >= 2
    /\ \E k \in 1..Len(lyrics_map) :
           /\ Len(lyrics_map[k].words) >= 2
           /\ lyrics_map[k].words[1].start # lyrics_map[k].words[2].start

\* C17: every word of every lyrics map starts before it ends, for every
\* input, duplicate and out-of-order timestamps and short durations
\* included.
WordsStartBeforeEnd ==
    \A k \in 1..Len(lyrics_map) :
        \A i \in 1..Len(lyrics_map[k].words) :
            FLt(lyrics_map[k].words[i].start, lyrics_map[k].words[i].end)

\* the end of the last word of an entry minus the start of its first word
SpanOf(entry) ==
    FSub(entry.words[Len(entry.words)].end, entry.words[1].start)

\* the entry the loop has appended last
LastEntry(map) == map[Len(map)]

\* one hundredth, with room for the error of the float operations
HundredthAndError == FLit(101, 10000)

\* half a hundredth, with room for the error of the float operations
HalfHundredthAndError == FLit(51, 10000)

\* C18: in timestamped mode the span of the words of a line never exceeds
\* the budget min(timeToNextLine, 0.15 * characterCount + 1.0) of the line.
SpanWithinBudget ==
    [][TimestampedStep =>
          ~ FLt(line_duration', SpanOf(LastEntry(lyrics_map')))]_vars

\* C18, amended: in timestamped mode the span of the stored word times of a
\* line exceeds the budget of the line by no more than 0.01, the stored
\* times being rounded to hundredths.
SpanWithinBudgetAndRounding ==
    [][TimestampedStep =>
          ~ FLt(FAdd(line_duration', HundredthAndError),
                SpanOf(LastEntry(lyrics_map')))]_vars

\* a line got a budget above zero and the span of its stored word times
\* is longer than it
SpanLongerThanBudget ==
    /\ mpc = "timestamped"
    /\ lyrics_map # <<>>
    /\ FLt(FZero, line_duration)
    /\ FLt(line_duration, SpanOf(LastEntry(lyrics_map)))

\* C19: in timestamped mode the returned introOffset is max(0, t - 4.0),
\* t being the stored time of the first line in file order, and it is not
\* negative; in heuristic mode it is 8.0.
IntroOffsetRule ==
    /\ mpc = "returned_timestamped" =>
           /\ map_result.map # <<>>
           /\ map_result.map[1].time = FRound2(parsed_lines[1].time)
           /\ map_result.intro =
                  LET diff == FSub(map_result.map[1].time, FFromNat(4))
                  IN  IF FLt(diff, FZero) THEN FZero ELSE diff
           /\ ~ FLt(map_result.intro, FZero)
    /\ mpc = "returned_heuristic" => map_result.intro = FFromNat(8)

\* a map was returned whose first line in file order is not its earliest,
\* with an introOffset above zero
IntroFromFirstNotEarliest ==
    /\ mpc = "returned_timestamped"
    /\ \E j \in 2..Len(parsed_lines) :
           FLt(parsed_lines[j].time, parsed_lines[1].time)
    /\ FLt(FZero, map_result.intro)

\* max(0, 0.95 * d - 8.0) / max(1, n) of the call in heuristic mode
ClaimedAverage ==
    LET span == FSub(FMul(FLit(95, 100), FFromNat(duration)), FFromNat(8))
        n    == IF Len(lines) > 1 THEN Len(lines) ELSE 1
    IN  FDiv(IF FLt(span, FZero) THEN FZero ELSE span, FFromNat(n))

\* 8.0 + k * max(0, 0.95 * d - 8.0) / max(1, n)
ClaimedStart(k) == FAdd(FFromNat(8), FMul(FFromNat(k), ClaimedAverage))

\* the distance of two floats
FDistance(x, y) == FSigned(FALSE, FSub(x, y).abs)

\* every line of the heuristic loop got the budget of the claim
HeuristicBudgetIsAverageLessGap ==
    (InHeuristicMode /\ line_no >= 1) =>
        line_duration = FSub(ClaimedAverage, FFromNat(1))

\* C20: in heuristic mode every line gets the budget
\* max(0, 0.95*d - 8.0) / max(1, n) - 1.0 and line k (from 0) starts at
\* 8.0 + k * max(0, 0.95*d - 8.0) / max(1, n).
HeuristicBudgetAndStarts ==
    /\ HeuristicBudgetIsAverageLessGap
    /\ InHeuristicMode =>
           \A k \in 1..Len(lyrics_map) :
               lyrics_map[k].time = ClaimedStart(k - 1)

\* C20, amended: in heuristic mode every line gets the budget
\* max(0, 0.95*d - 8.0) / max(1, n) - 1.0, and the stored start of line k
\* (from 0) is 8.0 + k * max(0, 0.95*d - 8.0) / max(1, n) rounded to
\* hundredths: it differs from that value by no more than 0.005.
HeuristicBudgetAndRoundedStarts ==
    /\ HeuristicBudgetIsAverageLessGap
    /\ InHeuristicMode =>
           \A k \in 1..Len(lyrics_map) :
               ~ FLt(HalfHundredthAndError,
                     FDistance(lyrics_map[k].time, ClaimedStart(k - 1)))

\* a heuristic map of three lines was returned whose second line is stored
\* at another time than 8.0 plus the average
HeuristicStartRounded ==
    /\ mpc = "returned_heuristic"
    /\ Len(lyrics_map) >= 3
    /\ lyrics_map[2].time # ClaimedStart(1)

(***************************************************************************)
(* Properties of calculate_word_weights.                                   *)
(***************************************************************************)
\* L * 0.6, L * 0.9, L * 1.0 or L * 1.2, by the band of the length L
BandedWeight(L) ==
    IF L <= 2 THEN FMul(FFromNat(L), FLit(6, 10))
    ELSE IF 3 <= L /\ L <= 4 THEN FMul(FFromNat(L), FLit(9, 10))
    ELSE IF 5 <= L /\ L <= 7 THEN FMul(FFromNat(L), FFromNat(1))
    ELSE FMul(FFromNat(L), FLit(12, 10))

\* sum(ws), from the left
RECURSIVE SumOfWeights(_)
SumOfWeights(ws) ==
    IF ws = <<>> THEN FZero
    ELSE FAdd(SumOfWeights(SubSeq(ws, 1, Len(ws) - 1)), ws[Len(ws)])

\* C21: calculate_word_weights gives each word of length L the weight of
\* its band, every non-empty word a weight above zero, a total that is the
\* sum of the weights, and a total above zero for a non-empty list.
WeightsByBand ==
    wpc = "returned" =>
        /\ Len(weights_result.weights) = Len(the_words)
        /\ \A i \in 1..Len(the_words) :
               /\ weights_result.weights[i] = BandedWeight(Len(the_words[i]))
               /\ the_words[i] # <<>> => FLt(FZero, weights_result.weights[i])
        /\ weights_result.total = SumOfWeights(weights_result.weights)
        /\ the_words # <<>> => FLt(FZero, weights_result.total)

\* the weights of three words of three different bands, one of them of
\* eight characters, were returned
ThreeBandsWeighed ==
    /\ wpc = "returned"
    /\ Len(the_words) = 3
    /\ Len(the_words[1]) <= 2
    /\ Len(the_words[2]) = 8
    /\ Len(the_words[3]) \in 5..7

(***************************************************************************)
(* Properties of karaoke_maker.py.                                         *)
(***************************************************************************)
\* the mode of the reduction level r: instrumental for r in [0.9, 1.0],
\* reduced for r in (0.0, 0.9), copy for r = 0.0, none outside [0.0, 1.0]
ClaimedMode(r) ==
    IF r.nan THEN "none"
    ELSE IF ~ FLt(r.val, FLit(9, 10)) /\ ~ FLt(FFromNat(1), r.val)
         THEN "instrumental"
    ELSE IF FLt(FZero, r.val) /\ FLt(r.val, FLit(9, 10)) THEN "reduced"
    ELSE IF r.val = FZero THEN "copy"
    ELSE "none"

\* no file has been processed
NothingProcessed == \A f \in DOMAIN disk : disk[f] = "none"

\* the invocation ended with status 1 before any file was processed
ExitedUnprocessed ==
    exit_status = 1 /\ modes_run = <<>> /\ NothingProcessed

\* C22: an invocation runs exactly one processing mode, the one of its
\* reduction level r, and an r outside [0.0, 1.0] exits with status 1
\* before any file is processed.
ExactlyOneModeByReduction ==
    kpc = "exited" =>
        IF ClaimedMode(reduction) = "none" THEN ExitedUnprocessed
        ELSE modes_run = << ClaimedMode(reduction) >>

\* C22, amended: an invocation runs at most one processing mode, the one
\* of its reduction level r; it runs that mode when audio_separator can be
\* imported and no signal ends the process before the mode is called.  An
\* r outside [0.0, 1.0], and a failing import for any r, exit with status 1
\* before any file is processed.
OneModeByReductionIfConstructed ==
    /\ Len(modes_run) <= 1
    /\ modes_run # <<>> => modes_run[1] = ClaimedMode(reduction)
    /\ kpc = "exited" =>
           IF ClaimedMode(reduction) = "none" \/ separator_pkg = "missing"
           THEN ExitedUnprocessed
           ELSE \/ modes_run = << ClaimedMode(reduction) >>
                \/ /\ modes_run = <<>>
                   /\ cleanups # <<>>
                   /\ cleanups[1].cause = "signal"
                   /\ NothingProcessed

\* with r = 0.9 the instrumental mode ran to its end and separated a file
InstrumentalAtNineTenths ==
    /\ kpc = "exited"
    /\ reduction = ArgFloat(FLit(9, 10))
    /\ modes_run = << "instrumental" >>
    /\ exit_status = 0
    /\ \E f \in DOMAIN disk : disk[f] = "complete"

\* C23: when the separation of a file is interrupted, by a signal or by a
\* KeyboardInterrupt, current_output_file refers to that file at the
\* moment cleanup runs, and cleanup removes its partial output.
InterruptedCleanupRemovesPartial ==
    \A i \in 1..Len(cleanups) :
        (cleanups[i].cause \in {"signal", "KeyboardInterrupt"}
         /\ cleanups[i].separating # 0) =>
            /\ cleanups[i].cof = audio_files[cleanups[i].separating]
            /\ disk[audio_files[cleanups[i].separating]] = "none"

(***************************************************************************)
(* The annotated output of calculate_score_advanced.                       *)
(***************************************************************************)
\* the spans of " ".join(html_output)
SpansOf(annotated) ==
    [k \in 1..((Len(annotated) + 1) \div 2) |-> annotated[2 * k - 1]]

\* the spans that render a performed token
IsPerformedSpan(span) ==
    span.class \in {ClassGreen, ClassYellow, ClassStrike, ClassExtra}

\* a missing-lyric marker of a run of target tokens
IsMarkerOfTarget(span, target) ==
    /\ span.class = ClassMissing
    /\ \E j1 \in 1..Len(target) : \E j2 \in j1..Len(target) :
           span.text = <<"[">> \o StrJoin(<<" ">>, SubSeq(target, j1, j2))
                       \o <<"]">>

\* C24: for a non-empty target the annotated output holds every performed
\* token once and in performed order, as an exact, near-exact, partial,
\* miss or extra span, and every other span is a missing-lyric marker of
\* target tokens.
AnnotatedKeepsPerformed ==
    (pc = "done" /\ target_words # <<>>) =>
        LET spans     == SpansOf(result.annotated)
            performed == SelectSeq(spans, IsPerformedSpan)
        IN  /\ [k \in 1..Len(performed) |-> performed[k].text] = user_words
            /\ \A k \in 1..Len(spans) :
                   \/ IsPerformedSpan(spans[k])
                   \/ IsMarkerOfTarget(spans[k], target_words)

\* an output with a marker, an extra span of a delete run of two tokens
\* and a miss was returned
AnnotatedOfEveryKind ==
    /\ pc = "done"
    /\ target_words # <<>>
    /\ \E k \in 1..Len(html_output) : html_output[k].class = ClassMissing
    /\ \E k \in 1..Len(html_output) : html_output[k].class = ClassStrike
    /\ \E i \in 1..Len(opcodes) :
           opcodes[i][1] = "delete" /\ opcodes[i][3] - opcodes[i][2] >= 2

(***************************************************************************)
(* The words of a line and the line that follows.                          *)
(***************************************************************************)
\* the parsed line times increase strictly in file order
TimesIncrease ==
    \A i \in 1..(Len(parsed_lines) - 1) :
        FLt(parsed_lines[i].time, parsed_lines[i + 1].time)

\* no start and no end of a word of the entry is before the entry's time
WordsNotBefore(entry) ==
    \A k \in 1..Len(entry.words) :
        /\ ~ FLt(entry.words[k].start, entry.time)
        /\ ~ FLt(entry.words[k].end, entry.time)

\* the end of the last word of an entry
LastEnd(entry) == entry.words[Len(entry.words)].end

\* C25: in timestamped mode with strictly increasing line times, the last
\* word of every non-final line ends no later than the time of the next
\* line, and no word of a line starts or ends before the time of its line.
WordsEndByNextLine ==
    (InTimestampedMode /\ TimesIncrease) =>
        \A i \in 1..Len(lyrics_map) :
            /\ WordsNotBefore(lyrics_map[i])
            /\ i < Len(lyrics_map) =>
                   ~ FLt(lyrics_map[i + 1].time, LastEnd(lyrics_map[i]))

\* C25, amended: in timestamped mode with strictly increasing line times,
\* the last word of every non-final line ends no later than 0.01 after the
\* stored time of the next line, the stored times being rounded to
\* hundredths, and no word of a line starts or ends before the stored time
\* of its line.
WordsEndByNextLineRounded ==
    (InTimestampedMode /\ TimesIncrease) =>
        \A i \in 1..Len(lyrics_map) :
            /\ WordsNotBefore(lyrics_map[i])
            /\ i < Len(lyrics_map) =>
                   ~ FLt(FAdd(lyrics_map[i + 1].time, HundredthAndError),
                         LastEnd(lyrics_map[i]))

\* a map of increasing line times was returned in which the last word of a
\* line ends after the stored time of the next line
WordsPastNextLine ==
    /\ mpc = "returned_timestamped"
    /\ TimesIncrease
    /\ \E i \in 1..(Len(lyrics_map) - 1) :
           FLt(lyrics_map[i + 1].time, LastEnd(lyrics_map[i]))

(***************************************************************************)
(* The catalog setup and the heuristic map.                                *)
(***************************************************************************)
\* C26: from the catalog setup generate_heuristic_map is never reached:
\* the call of it is enabled in no state and no state is in heuristic mode;
\* lyrics given without a duration that hold no tagged line are timed as
\* the lines of GENERIC_LYRICS; and a duration is given only with
\* GENERIC_LYRICS or the lyrics of DEFAULT_SONG, which parse to a line list
\* that is not empty.
SetupNeverHeuristic ==
    /\ ~ ENABLED CallHeuristic
    /\ ~ InHeuristicMode
    /\ (InTimestampedMode /\ parse_lrc(lrc_text) = <<>>) =>
           /\ duration = NoDuration
           /\ parsed_lines = parse_lrc(GENERIC_LYRICS)
    /\ (mpc # "idle" /\ duration # NoDuration) =>
           /\ lrc_text \in {GENERIC_LYRICS, DEFAULT_SONG_lyrics}
           /\ parse_lrc(lrc_text) # <<>>

\* fetched lyrics without a tagged line were timed as the lines of
\* GENERIC_LYRICS
UntaggedFetchedTimedAsGeneric ==
    /\ mpc = "returned_timestamped"
    /\ lrc_text # <<>>
    /\ parse_lrc(lrc_text) = <<>>
    /\ duration = NoDuration
    /\ Len(lyrics_map) = Len(parse_lrc(GENERIC_LYRICS))

(***************************************************************************)
(* The leaderboard.                                                        *)
(***************************************************************************)
\* no entry of the list has a lower score than an entry after it
SortedDescending(seq) ==
    \A i \in 1..Len(seq) : \A j \in (i + 1)..Len(seq) :
        ~ ScoreLess(seq[i], seq[j])

\* once a POST was saved, the leaderboard on disk is sorted by score from
\* high to low and holds at most 50 entries
BoardSortedAndShort ==
    posts_saved > 0 =>
        /\ SortedDescending(load_json(board_file))
        /\ Len(load_json(board_file)) <= LeaderboardLimit

\* a step of a handler whose request is a POST without name or score
\* leaves the leaderboard on disk as it is, and its answer is 400
RejectedStep ==
    \A h \in Handlers :
        (/\ hpc'[h] # hpc[h]
         /\ request'[h].method = "POST"
         /\ ~ ValidEntry(request'[h].entry)) =>
            /\ board_file' = board_file
            /\ hpc'[h] = "done" => status'[h] = 400

\* C27: after any sequence of requests, once a valid POST has completed,
\* the persisted leaderboard is sorted by non-increasing score and holds at
\* most 50 entries; a POST lacking name or score returns 400 and leaves the
\* persisted leaderboard unchanged.
LeaderboardKept == [] BoardSortedAndShort /\ [][RejectedStep]_vars

\* how often an entry is in a list
Count(e, seq) == Cardinality({i \in 1..Len(seq) : seq[i] = e})

\* the entry is within the top 50 of the first leaderboard and the posted
\* entries, however the scores that are not lower are ordered
RanksInTop(e) ==
    LET combined ==
            load_json(first_file)
                \o [h \in Handlers |-> request[h].entry]
    IN  Cardinality({i \in 1..Len(combined) : ~ ScoreLess(combined[i], e)})
            <= LeaderboardLimit

\* C28: when two valid POST requests are handled concurrently, after both
\* complete the persisted leaderboard contains both entries whenever both
\* scores rank within the top 50 of the combined list.
ConcurrentPostsBothKept ==
    (\A h \in Handlers :
        /\ hpc[h] = "done"
        /\ request[h].method = "POST"
        /\ ValidEntry(request[h].entry)
        /\ status[h] = 200
        /\ RanksInTop(request[h].entry)) =>
        \A h \in Handlers :
            Count(request[h].entry, load_json(board_file)) >=
                Count(request[h].entry, load_json(first_file))
                    + Cardinality({g \in Handlers :
                                      request[g].entry = request[h].entry})

====
